---- MODULE Spec2Model ----
(***************************************************************************)
(* A model of the expression parser and evaluator of Ezward's              *)
(* ExpressionParser: the character scanners of scan/context.rs, the        *)
(* recursive-descent parser of expression/parse.rs and the evaluator of    *)
(* expression/node.rs and expression/value.rs.                             *)
(*                                                                         *)
(* A source string is a sequence of characters; a character is a string.   *)
(* The two non-ASCII operator characters of the grammar comment are the    *)
(* characters TIMES and OBELUS, two bytes long in UTF-8.                   *)
(***************************************************************************)
EXTENDS Integers, Sequences, FiniteSets, TLC

VARIABLES src, pc, result, value, scanning, linked, called

vars == <<src, pc, result, value, scanning, linked, called>>

(***************************** bounds **************************************)
\* every string over Alphabet of at most MaxLen characters is an input
MaxLen == 3
\* every string over CoreAlphabet of at most MaxCoreLen characters is an input
MaxCoreLen == 4
\* every string over ScanAlphabet of at most MaxScanLen characters is a source
\* of the scanners, and scan_n_chars counts up to MaxScanLen characters
MaxScanLen == 2
\* scan_all and scan_any are given at most MaxScanners scanners
MaxScanners == 2
\* a list under its operations holds at most MaxListLen elements
MaxListLen == 3
\* a list of lists holds at most MaxFatLen lists of at most MaxFlatLen elements
MaxFatLen == 2
MaxFlatLen == 2
\* a String holds at most MaxStringLen characters
MaxStringLen == 12
\* formatStringOperands is given at most MaxOperands operands
MaxOperands == 3
\* every string over CommuteAlphabet of at most MaxCommuteLen characters is commuted
MaxCommuteLen == 3

(***************************** characters **********************************)
TIMES == "U+00D7"
OBELUS == "U+00F7"
NEWLINE == "\n"
NEWLINE_LEN == 1

\* char::len_utf8 on the characters of the model
len_utf8(ch) == IF ch \in {TIMES, OBELUS} THEN 2 ELSE 1

\* char::is_ascii_whitespace: space, tab, line feed, form feed, carriage return
is_ascii_whitespace(ch) == ch \in {" ", "\t", "\n", "\f", "\r"}

\* char::is_ascii_digit
is_ascii_digit(ch) == ch \in {"0", "1", "2", "3", "4", "5", "6", "7", "8", "9"}

DigitValue(ch) ==
    CASE ch = "0" -> 0 [] ch = "1" -> 1 [] ch = "2" -> 2 [] ch = "3" -> 3
      [] ch = "4" -> 4 [] ch = "5" -> 5 [] ch = "6" -> 6 [] ch = "7" -> 7
      [] ch = "8" -> 8 [] ch = "9" -> 9

\* char::is_alphabetic on the characters of the model: the letters
is_alphabetic(ch) ==
    ch \in {"a", "b", "c", "d", "e", "f", "g", "h", "i", "j", "k", "l", "m", "n", "o", "p", "q", "r", "s", "t", "u", "v", "w", "x", "y", "z",
            "A", "B", "C", "D", "E", "F", "G", "H", "I", "J", "K", "L", "M", "N", "O", "P", "Q", "R", "S", "T", "U", "V", "W", "X", "Y", "Z"}

\* char::is_alphanumeric
is_alphanumeric(ch) == is_alphabetic(ch) \/ is_ascii_digit(ch)

\* the predicates the parser and the tests pass to the scanners, by name
TestChar(test, ch) ==
    CASE test = "whitespace" -> is_ascii_whitespace(ch)
      [] test = "digit" -> is_ascii_digit(ch)
      [] test = "any" -> TRUE
      [] test = "alphabetic" -> is_alphabetic(ch)
      [] test = "alphanumeric" -> is_alphanumeric(ch)
      [] test = "newline" -> ch = NEWLINE

(***************************** strings *************************************)
\* the number of characters of s that take n bytes
CharsOfLen(s, n) == Cardinality({i \in DOMAIN s : len_utf8(s[i]) = n})

\* str::len: the length of a string in bytes
ByteLen(s) == CharsOfLen(s, 1) + 2 * CharsOfLen(s, 2) + 3 * CharsOfLen(s, 3)
              + 4 * CharsOfLen(s, 4)

\* the number of characters of s that end at or before byte index b,
\* when b is a character boundary of s
CharsBefore(s, b) ==
    CHOOSE k \in 0..Len(s) : ByteLen(SubSeq(s, 1, k)) = b

\* str::is_char_boundary
is_char_boundary(s, b) ==
    \E k \in 0..Len(s) : ByteLen(SubSeq(s, 1, k)) = b

\* s[b..].chars(): slicing panics unless b is a character boundary of s
SliceFrom(s, b) == SubSeq(s, CharsBefore(s, b) + 1, Len(s))

\* s[a..b]: slicing panics unless a <= b and both are character boundaries
Slice(s, a, b) == SubSeq(s, CharsBefore(s, a) + 1, CharsBefore(s, b))

SliceOk(s, a, b) == a <= b /\ is_char_boundary(s, a) /\ is_char_boundary(s, b)

(***************************** scan/context.rs *****************************)
ScanPosition(byte_index, char_index, line_index, line_byte_index, line_char_index) ==
    [byte_index |-> byte_index, char_index |-> char_index, line_index |-> line_index,
     line_byte_index |-> line_byte_index, line_char_index |-> line_char_index]

DefaultPosition == ScanPosition(0, 0, 0, 0, 0)

\* a ScanContext is the pair (matched, position)
Context(matched, position) == [matched |-> matched, position |-> position]

\* the outcome of a scanner that panicked on an invalid slice
PanicContext(position) == [matched |-> FALSE, position |-> position, panic |-> TRUE]

Panicked(context) == "panic" \in DOMAIN context

beginning == Context(TRUE, DefaultPosition)

\* the line counters after a NEWLINE seen at position
NewLine(position) ==
    [position EXCEPT !.line_index = @ + 1,
                     !.line_byte_index = position.byte_index + NEWLINE_LEN,
                     !.line_char_index = position.char_index + 1]

\* byte_index += ch.len_utf8(); char_index += 1
Advance(position, ch) ==
    [position EXCEPT !.byte_index = @ + len_utf8(ch), !.char_index = @ + 1]

RECURSIVE scan_literal_loop(_, _, _)
\* the loop counting the character of the literal that the source ran out at
scan_literal_loop_overrun(s_chars, literal, position) ==
    IF literal = <<>> THEN Context(TRUE, position)
    ELSE IF s_chars = <<>> THEN Context(FALSE, Advance(position, Head(literal)))
    ELSE LET ch == Head(literal)
             sch == Head(s_chars)
             counted == IF ch = NEWLINE THEN NewLine(position) ELSE position
         IN  IF ch = sch
             THEN scan_literal_loop(Tail(s_chars), Tail(literal), Advance(counted, ch))
             ELSE Context(FALSE, counted)

\* the for loop of scan_literal over the characters of the literal
scan_literal_loop(s_chars, literal, position) ==
    IF literal = <<>> THEN Context(TRUE, position)
    ELSE IF s_chars = <<>> THEN Context(FALSE, position)
    ELSE LET ch == Head(literal)
             sch == Head(s_chars)
             counted == IF ch = NEWLINE THEN NewLine(position) ELSE position
         IN  IF ch = sch
             THEN scan_literal_loop(Tail(s_chars), Tail(literal), Advance(counted, ch))
             ELSE Context(FALSE, counted)

scan_literal(s, context, literal) ==
    IF Panicked(context) THEN context
    ELSE IF (~context.matched) \/ context.position.byte_index > ByteLen(s)
    THEN Context(FALSE, context.position)
    ELSE IF ~is_char_boundary(s, context.position.byte_index)
    THEN PanicContext(context.position)
    ELSE scan_literal_loop(SliceFrom(s, context.position.byte_index), literal,
                           context.position)

RECURSIVE scan_chars_loop(_, _, _, _)
\* the for loop shared by scan_zero_or_more_chars and scan_one_or_more_chars:
\* the position where the scan stops and the number of matches
scan_chars_loop(s_chars, test, position, matches) ==
    IF s_chars = <<>> THEN [position |-> position, matches |-> matches]
    ELSE LET ch == Head(s_chars)
         IN  IF ~TestChar(test, ch) THEN [position |-> position, matches |-> matches]
             ELSE scan_chars_loop(Tail(s_chars), test,
                                  Advance(IF ch = NEWLINE THEN NewLine(position)
                                                          ELSE position, ch),
                                  matches + 1)

scan_zero_or_more_chars(s, context, test) ==
    IF Panicked(context) THEN context
    ELSE IF (~context.matched) \/ context.position.byte_index > ByteLen(s)
    THEN Context(FALSE, context.position)
    ELSE IF ~is_char_boundary(s, context.position.byte_index)
    THEN PanicContext(context.position)
    ELSE Context(TRUE, scan_chars_loop(SliceFrom(s, context.position.byte_index), test,
                                       context.position, 0).position)

scan_one_or_more_chars(s, context, test) ==
    IF Panicked(context) THEN context
    ELSE IF (~context.matched) \/ context.position.byte_index > ByteLen(s)
    THEN Context(FALSE, context.position)
    ELSE IF ~is_char_boundary(s, context.position.byte_index)
    THEN PanicContext(context.position)
    ELSE LET r == scan_chars_loop(SliceFrom(s, context.position.byte_index), test,
                                  context.position, 0)
         IN  Context(r.matches > 0, r.position)

RECURSIVE scan_n_chars_loop(_, _, _, _, _)
\* the loop counting the character that fails the test as scanned
scan_n_chars_loop_consuming(s_chars, n, test, position, matches) ==
    IF s_chars = <<>> THEN Context(n = matches, position)
    ELSE IF matches = n THEN Context(TRUE, position)
    ELSE LET ch == Head(s_chars)
             counted == IF ch = NEWLINE THEN NewLine(position) ELSE position
         IN  IF TestChar(test, ch)
             THEN scan_n_chars_loop(Tail(s_chars), n, test, Advance(counted, ch), matches + 1)
             ELSE Context(FALSE, Advance(counted, ch))

\* the for loop of scan_n_chars and the return after it; the line counters
\* are updated before the character is tested
scan_n_chars_loop(s_chars, n, test, position, matches) ==
    IF s_chars = <<>> THEN Context(n = matches, position)
    ELSE IF matches = n THEN Context(TRUE, position)
    ELSE LET ch == Head(s_chars)
             counted == IF ch = NEWLINE THEN NewLine(position) ELSE position
         IN  IF TestChar(test, ch)
             THEN scan_n_chars_loop(Tail(s_chars), n, test, Advance(counted, ch), matches + 1)
             ELSE Context(FALSE, counted)

\* scan_n_chars returning a match for n = 0 before it looks at the context
scan_n_chars_eager(s, context, n, test) ==
    IF Panicked(context) THEN context
    ELSE IF n = 0 THEN Context(TRUE, context.position)
    ELSE IF (~context.matched) \/ context.position.byte_index > ByteLen(s)
    THEN Context(FALSE, context.position)
    ELSE IF ~is_char_boundary(s, context.position.byte_index)
    THEN PanicContext(context.position)
    ELSE scan_n_chars_loop(SliceFrom(s, context.position.byte_index), n, test,
                           context.position, 0)

scan_n_chars(s, context, n, test) ==
    IF Panicked(context) THEN context
    ELSE IF (~context.matched) \/ context.position.byte_index > ByteLen(s)
    THEN Context(FALSE, context.position)
    ELSE IF ~is_char_boundary(s, context.position.byte_index)
    THEN PanicContext(context.position)
    ELSE scan_n_chars_loop(SliceFrom(s, context.position.byte_index), n, test,
                           context.position, 0)

(***************************** scan/scanner.rs *****************************)
\* a ScannerFn is a function of the source and a context; the scanners of
\* the model are the scanning functions with their other arguments fixed,
\* as the closures of the tests fix them
Scanner(op, literal, test, n, scanners) ==
    [op |-> op, literal |-> literal, test |-> test, n |-> n, scanners |-> scanners]

LiteralScanner(literal) == Scanner("scan_literal", literal, "any", 0, <<>>)
ZeroOrMoreScanner(test) == Scanner("scan_zero_or_more_chars", <<>>, test, 0, <<>>)
OneOrMoreScanner(test) == Scanner("scan_one_or_more_chars", <<>>, test, 0, <<>>)
NCharsScanner(n, test) == Scanner("scan_n_chars", <<>>, test, n, <<>>)
PairScanner(scanner_left, scanner_right) ==
    Scanner("scan_pair", <<>>, "any", 0, <<scanner_left, scanner_right>>)
AllScanner(scanners) == Scanner("scan_all", <<>>, "any", 0, scanners)
AnyScanner(scanners) == Scanner("scan_any", <<>>, "any", 0, scanners)

\* a scanner that did not match or panicked ends a sequence, a match goes on
IfMatched(scanned, Then(_)) ==
    IF Panicked(scanned) \/ ~scanned.matched THEN scanned ELSE Then(scanned)

\* a scanner that matched or panicked ends the alternatives, a failure goes on
IfNotMatched(scanned, Then(_)) ==
    IF Panicked(scanned) \/ scanned.matched THEN scanned ELSE Then(scanned)

RECURSIVE scan(_, _, _), scan_all_loop(_, _, _), scan_any_loop(_, _, _)

\* scan_pair calling the right scanner whatever the left one returned
scan_pair_unconditional(s, context, scanner_left, scanner_right) ==
    IF Panicked(context) THEN context
    ELSE IF (~context.matched) \/ context.position.byte_index > ByteLen(s)
    THEN Context(FALSE, context.position)
    ELSE IfNotMatched(scan(scanner_left, s, context),
                      LAMBDA left : scan(scanner_right, s, Context(TRUE, left.position)))

scan_pair(s, context, scanner_left, scanner_right) ==
    IF Panicked(context) THEN context
    ELSE IF (~context.matched) \/ context.position.byte_index > ByteLen(s)
    THEN Context(FALSE, context.position)
    ELSE IfMatched(scan(scanner_left, s, context),
                   LAMBDA left : scan(scanner_right, s, left))

\* the for loop of scan_all: it breaks at the first scanner without a match
scan_all_loop(s, scanned, scanners) ==
    IF scanners = <<>> THEN scanned
    ELSE IfMatched(scan(Head(scanners), s, scanned),
                   LAMBDA next : scan_all_loop(s, next, Tail(scanners)))

scan_all(s, context, scanners) ==
    IF Panicked(context) THEN context
    ELSE IF (~context.matched) \/ context.position.byte_index > ByteLen(s)
    THEN Context(FALSE, context.position)
    ELSE scan_all_loop(s, context, scanners)

\* the for loop of scan_any: every scanner is given the context the scanner
\* before it returned, and the loop breaks at the first match
scan_any_loop(s, scanned, scanners) ==
    IF scanners = <<>> THEN scanned
    ELSE IfNotMatched(scan(Head(scanners), s, scanned),
                      LAMBDA next : scan_any_loop(s, next, Tail(scanners)))

scan_any(s, context, scanners) ==
    IF Panicked(context) THEN context
    ELSE IF (~context.matched) \/ context.position.byte_index > ByteLen(s)
    THEN Context(FALSE, context.position)
    ELSE scan_any_loop(s, context, scanners)

\* Scanner::scan: the call of a scanner
scan(scanner, s, context) ==
    CASE scanner.op = "scan_literal" -> scan_literal(s, context, scanner.literal)
      [] scanner.op = "scan_zero_or_more_chars" ->
            scan_zero_or_more_chars(s, context, scanner.test)
      [] scanner.op = "scan_one_or_more_chars" ->
            scan_one_or_more_chars(s, context, scanner.test)
      [] scanner.op = "scan_n_chars" -> scan_n_chars(s, context, scanner.n, scanner.test)
      [] scanner.op = "scan_pair" ->
            scan_pair(s, context, scanner.scanners[1], scanner.scanners[2])
      [] scanner.op = "scan_all" -> scan_all(s, context, scanner.scanners)
      [] scanner.op = "scan_any" -> scan_any(s, context, scanner.scanners)

(***************************** numbers *************************************)
I32_MAX == 2147483647
I32_MIN == -2147483647 - 1

RECURSIVE GCD(_, _)
GCD(a, b) == IF b = 0 THEN a ELSE GCD(b, a % b)

Abs(n) == IF n < 0 THEN -n ELSE n

RECURSIVE Pow10(_)
Pow10(n) == IF n = 0 THEN 1 ELSE 10 * Pow10(n - 1)

\* an f64 is modelled by the rational it denotes, in lowest terms with a
\* positive denominator; the inputs of the model keep every decimal exact
Rational(num, den) ==
    LET g == GCD(Abs(num), Abs(den))
        sgn == IF den < 0 THEN -1 ELSE 1
    IN  [num |-> sgn * (num \div g), den |-> sgn * (den \div g)]

\* IntegerType as DecimalType
AsDecimal(n) == [num |-> n, den |-> 1]

RECURSIVE ParseDigitsI32(_, _, _)
\* the checked accumulation of <i32 as FromStr>::from_str: positive numbers
\* are accumulated upwards and negative numbers downwards, and a step that
\* leaves the i32 range is an error
ParseDigitsI32(digits, acc, is_negative) ==
    IF digits = <<>> THEN [ok |-> TRUE, value |-> acc]
    ELSE IF ~is_ascii_digit(Head(digits)) THEN [ok |-> FALSE, value |-> 0]
    ELSE LET d == DigitValue(Head(digits))
         IN  IF is_negative
             THEN IF acc < (I32_MIN + d + 9) \div 10 THEN [ok |-> FALSE, value |-> 0]
                  ELSE ParseDigitsI32(Tail(digits), acc * 10 - d, is_negative)
             ELSE IF acc > (I32_MAX - d) \div 10 THEN [ok |-> FALSE, value |-> 0]
                  ELSE ParseDigitsI32(Tail(digits), acc * 10 + d, is_negative)

\* text.parse::<i32>(): an optional sign and digits; an empty text, a lone
\* sign or any other character is an error
ParseI32(text) ==
    IF text = <<>> \/ text = <<"-">> THEN [ok |-> FALSE, value |-> 0]
    ELSE IF Head(text) = "-" THEN ParseDigitsI32(Tail(text), 0, TRUE)
    ELSE ParseDigitsI32(text, 0, FALSE)

RECURSIVE DigitsValue(_, _)
DigitsValue(digits, acc) ==
    IF digits = <<>> THEN acc
    ELSE DigitsValue(Tail(digits), acc * 10 + DigitValue(Head(digits)))

RECURSIVE TakeDigits(_)
\* the leading run of digits of a text
TakeDigits(text) ==
    IF text = <<>> \/ ~is_ascii_digit(Head(text)) THEN <<>>
    ELSE <<Head(text)>> \o TakeDigits(Tail(text))

\* text.parse::<f64>() for a text of the form -?[0-9]+(.[0-9]+)?([eE][0-9]+)?
\* such a text always converts
ParseF64(text) ==
    LET is_negative == Head(text) = "-"
        unsigned == IF is_negative THEN Tail(text) ELSE text
        int_part == TakeDigits(unsigned)
        after_int == SubSeq(unsigned, Len(int_part) + 1, Len(unsigned))
        has_fraction == after_int # <<>> /\ Head(after_int) = "."
        fraction == IF has_fraction THEN TakeDigits(Tail(after_int)) ELSE <<>>
        after_fraction == IF has_fraction
                          THEN SubSeq(after_int, Len(fraction) + 2, Len(after_int))
                          ELSE after_int
        exponent == IF after_fraction # <<>> /\ Head(after_fraction) \in {"e", "E"}
                    THEN DigitsValue(TakeDigits(Tail(after_fraction)), 0)
                    ELSE 0
        mantissa == DigitsValue(int_part \o fraction, 0)
    IN  Rational((IF is_negative THEN -1 ELSE 1) * mantissa * Pow10(exponent),
                 Pow10(Len(fraction)))

(***************************** expression/node.rs **************************)
ParsePosition(start, end) == [start |-> start, end |-> end]

IntegerNode(position, v) == [kind |-> "Integer", position |-> position, value |-> v]
DecimalNode(position, v) == [kind |-> "Decimal", position |-> position, value |-> v]
ParenthesisNode(position, sign, inner) ==
    [kind |-> "Parenthesis", position |-> position, sign |-> sign, inner |-> inner]
ChainNode(kind, position, operands) ==
    [kind |-> kind, position |-> position, operands |-> operands]
PowerNode(position, base, exponent) ==
    [kind |-> "Power", position |-> position, base |-> base, exponent |-> exponent]

ChainKinds == {"Sum", "Difference", "Product", "Quotient"}

\* SignType::from(bool) with the two signs exchanged
SignFromBool_swapped(b) == IF b THEN "Negative" ELSE "Positive"

\* SignType::from(bool): true is Positive and false is Negative
SignFromBool(b) == IF b THEN "Positive" ELSE "Negative"

(***************************** expression/parse.rs *************************)
\* the values of Result<_, ParsingError>, and a panic of the parser
Ok(context, node) == [status |-> "Ok", context |-> context, node |-> node]
OkContext(context) == [status |-> "Ok", context |-> context]
Err(kind, start, end) ==
    [status |-> "Err", error |-> [kind |-> kind, position |-> ParsePosition(start, end)]]
Panic == [status |-> "Panic"]
Failed(r) == r.status # "Ok"

\* the ? operator: an Err or a panic is returned at once, an Ok goes on
Try(r, Then(_)) == IF r.status # "Ok" THEN r ELSE Then(r)

\* a scanner that panicked on its slice unwinds the parser
Scan(context, Then(_)) == IF Panicked(context) THEN Panic ELSE Then(context)

\* the whitespace before an operator was skipped and the operator matched
Matched(ws, operator) == (~Failed(ws)) /\ (~Panicked(operator)) /\ operator.matched

scan_whitespace(s, context) == scan_zero_or_more_chars(s, context, "whitespace")
scan_digits(s, context) == scan_one_or_more_chars(s, context, "digit")
scan_to_end(s, context) == scan_zero_or_more_chars(s, context, "any")

\* expect_match testing for a position past the end of the input
expect_match_past_end(s, start_position, context) ==
    IF Panicked(context) THEN Panic
    ELSE IF ~context.matched
    THEN IF context.position.byte_index > ByteLen(s)
         THEN Err("EndOfInput", start_position, context.position)
         ELSE Err("Number", start_position, context.position)
    ELSE OkContext(context)

\* an unmatched context is EndOfInput at the end of the input and Number before
expect_match(s, start_position, context) ==
    IF Panicked(context) THEN Panic
    ELSE IF ~context.matched
    THEN IF context.position.byte_index >= ByteLen(s)
         THEN Err("EndOfInput", start_position, context.position)
         ELSE Err("Number", start_position, context.position)
    ELSE OkContext(context)

parse_whitespace(s, context) ==
    IF Panicked(context) THEN Panic
    ELSE expect_match(s, context.position, scan_whitespace(s, context))

\* number_node taking a number with an exponent and no '.' for an integer
number_node_no_exponent(s, start_position, position, is_decimal, has_exponent) ==
    IF ~SliceOk(s, start_position.byte_index, position.byte_index) THEN Panic
    ELSE LET text == Slice(s, start_position.byte_index, position.byte_index)
             span == ParsePosition(start_position, position)
         IN  IF is_decimal
             THEN Ok(Context(TRUE, position), DecimalNode(span, ParseF64(text)))
             ELSE LET parsed == ParseI32(text)
                  IN  IF parsed.ok
                      THEN Ok(Context(TRUE, position), IntegerNode(span, parsed.value))
                      ELSE Err("Number", start_position, position)

\* number_node unwrapping the conversion to i32
number_node_unwrap(s, start_position, position, is_decimal, has_exponent) ==
    IF ~SliceOk(s, start_position.byte_index, position.byte_index) THEN Panic
    ELSE LET text == Slice(s, start_position.byte_index, position.byte_index)
             span == ParsePosition(start_position, position)
         IN  IF is_decimal \/ has_exponent
             THEN Ok(Context(TRUE, position), DecimalNode(span, ParseF64(text)))
             ELSE LET parsed == ParseI32(text)
                  IN  IF parsed.ok
                      THEN Ok(Context(TRUE, position), IntegerNode(span, parsed.value))
                      ELSE Panic

\* the node parse_number returns for the text between two positions: a
\* Decimal with a '.' part or an exponent, otherwise an Integer, and a Number
\* error when the text does not convert
number_node(s, start_position, position, is_decimal, has_exponent) ==
    IF ~SliceOk(s, start_position.byte_index, position.byte_index) THEN Panic
    ELSE LET text == Slice(s, start_position.byte_index, position.byte_index)
             span == ParsePosition(start_position, position)
         IN  IF is_decimal \/ has_exponent
             THEN Ok(Context(TRUE, position), DecimalNode(span, ParseF64(text)))
             ELSE LET parsed == ParseI32(text)
                  IN  IF parsed.ok
                      THEN Ok(Context(TRUE, position), IntegerNode(span, parsed.value))
                      ELSE Err("Number", start_position, position)

\* number ::= [integer | decimal | scientific]
parse_number(s, context) ==
    Try(parse_whitespace(s, context), LAMBDA ws :
    Scan(scan_literal(s, Context(TRUE, ws.context.position), <<"-">>), LAMBDA negation :
    Try(expect_match(s, ws.context.position,
                     scan_digits(s, Context(TRUE, negation.position))), LAMBDA int_digits :
    Scan(scan_literal(s, Context(TRUE, int_digits.context.position), <<".">>), LAMBDA dot :
    Try(IF dot.matched
        THEN expect_match(s, ws.context.position,
                          scan_digits(s, Context(TRUE, dot.position)))
        ELSE OkContext(Context(TRUE, dot.position)), LAMBDA fraction :
    Scan(scan_literal(s, Context(TRUE, fraction.context.position), <<"e">>), LAMBDA lower :
    Scan(IF lower.matched THEN lower
         ELSE scan_literal(s, Context(TRUE, fraction.context.position), <<"E">>),
         LAMBDA exponent :
    Try(IF exponent.matched
        THEN expect_match(s, ws.context.position,
                          scan_digits(s, Context(TRUE, exponent.position)))
        ELSE OkContext(Context(TRUE, fraction.context.position)), LAMBDA digits :
        number_node(s, ws.context.position, digits.context.position,
                    dot.matched, exponent.matched)))))))))

RECURSIVE parse_value(_, _), parse_power(_, _), parse_quotient(_, _),
          parse_product(_, _), parse_difference(_, _), parse_sum(_, _),
          parse_quotient_loop(_, _, _, _), parse_product_loop(_, _, _, _),
          parse_difference_loop(_, _, _, _), parse_sum_loop(_, _, _, _)

parse_expression(s, context) == parse_sum(s, context)

\* value ::= [parenthesis | number]; parenthesis ::= {sign} '(' expression ')'
parse_value(s, context) ==
    LET ws == parse_whitespace(s, context)
        negation == scan_literal(s, ws.context, <<"-">>)
        open == scan_literal(s, Context(ws.context.matched, negation.position), <<"(">>)
    IN  IF Failed(ws) THEN ws
        ELSE IF Panicked(negation) \/ Panicked(open) THEN Panic
        ELSE IF open.matched
        THEN Try(parse_expression(s, Context(open.matched, open.position)), LAMBDA inner :
             Try(parse_whitespace(s, inner.context), LAMBDA inner_ws :
             Try(expect_match(s, ws.context.position,
                              scan_literal(s, inner_ws.context, <<")">>)), LAMBDA close :
                 Ok(close.context,
                    ParenthesisNode(
                        ParsePosition(ws.context.position, close.context.position),
                        SignFromBool(~negation.matched), inner.node)))))
        ELSE parse_number(s, Context(TRUE, ws.context.position))

\* parse_power parsing the exponent as a power again
parse_power_chained(s, context) ==
    LET ws == parse_whitespace(s, context)
    IN  IF Failed(ws) THEN ws
        ELSE Try(parse_value(s, ws.context), LAMBDA left :
             LET operator == scan_literal(s, left.context, <<"^">>)
             IN  IF (~Panicked(operator)) /\ operator.matched
                 THEN Try(parse_power(s, Context(operator.matched, operator.position)),
                          LAMBDA right :
                          Ok(Context(TRUE, right.context.position),
                             PowerNode(ParsePosition(ws.context.position,
                                                     right.context.position),
                                       left.node, right.node)))
                 ELSE Scan(operator, LAMBDA unmatched :
                      Ok(Context(TRUE, left.context.position), left.node)))

\* power ::= value{'^'value}
parse_power(s, context) ==
    LET ws == parse_whitespace(s, context)
    IN  IF Failed(ws) THEN ws
        ELSE Try(parse_value(s, ws.context), LAMBDA left :
             LET operator == scan_literal(s, left.context, <<"^">>)
             IN  IF (~Panicked(operator)) /\ operator.matched
                 THEN Try(parse_value(s, Context(operator.matched, operator.position)),
                          LAMBDA right :
                          Ok(Context(TRUE, right.context.position),
                             PowerNode(ParsePosition(ws.context.position,
                                                     right.context.position),
                                       left.node, right.node)))
                 ELSE Scan(operator, LAMBDA unmatched :
                      Ok(Context(TRUE, left.context.position), left.node)))

\* the while loop of parse_quotient, entered after an operator that ends at position
parse_quotient_loop(s, start_position, position, operands) ==
    Try(parse_power(s, Context(TRUE, position)), LAMBDA operand :
    LET ws == parse_whitespace(s, operand.context)
        operator == scan_literal(s, ws.context, <<"/">>)
    IN  IF Matched(ws, operator)
        THEN parse_quotient_loop(s, start_position, operator.position,
                                Append(operands, operand.node))
        ELSE Try(ws, LAMBDA skipped :
             Scan(operator, LAMBDA unmatched :
             Ok(Context(TRUE, operand.context.position),
                ChainNode("Quotient",
                          ParsePosition(start_position, operand.context.position),
                          Append(operands, operand.node))))))

\* parse_quotient wrapping a lone operand in a Quotient node
parse_quotient_wraps(s, context) ==
    LET start == parse_whitespace(s, context)
    IN  IF Failed(start) THEN start
        ELSE Try(parse_power(s, start.context), LAMBDA left :
             LET ws == parse_whitespace(s, left.context)
                 operator == scan_literal(s, ws.context, <<"/">>)
             IN  IF Matched(ws, operator)
                 THEN parse_quotient_loop(s, start.context.position, operator.position, <<left.node>>)
                 ELSE Try(ws, LAMBDA skipped :
                      Scan(operator, LAMBDA unmatched :
                      Ok(Context(TRUE, left.context.position),
                ChainNode("Quotient",
                          ParsePosition(start.context.position, left.context.position),
                          <<left.node>>)))))

\* quotient ::= power {[OBELUS | '/'] power}*
parse_quotient(s, context) ==
    LET start == parse_whitespace(s, context)
    IN  IF Failed(start) THEN start
        ELSE Try(parse_power(s, start.context), LAMBDA left :
             LET ws == parse_whitespace(s, left.context)
                 operator == scan_literal(s, ws.context, <<"/">>)
             IN  IF Matched(ws, operator)
                 THEN parse_quotient_loop(s, start.context.position, operator.position, <<left.node>>)
                 ELSE Try(ws, LAMBDA skipped :
                      Scan(operator, LAMBDA unmatched :
                      Ok(Context(TRUE, left.context.position), left.node))))

\* the loop of parse_product parsing its operands at the level of sums
parse_product_loop_loose(s, start_position, position, operands) ==
    Try(parse_sum(s, Context(TRUE, position)), LAMBDA operand :
    LET ws == parse_whitespace(s, operand.context)
        operator == scan_literal(s, ws.context, <<"*">>)
    IN  IF Matched(ws, operator)
        THEN parse_product_loop(s, start_position, operator.position,
                               Append(operands, operand.node))
        ELSE Try(ws, LAMBDA skipped :
             Scan(operator, LAMBDA unmatched :
             Ok(Context(TRUE, operand.context.position),
                ChainNode("Product",
                          ParsePosition(start_position, operand.context.position),
                          Append(operands, operand.node))))))

\* the while loop of parse_product, entered after an operator that ends at position
parse_product_loop(s, start_position, position, operands) ==
    Try(parse_quotient(s, Context(TRUE, position)), LAMBDA operand :
    LET ws == parse_whitespace(s, operand.context)
        operator == scan_literal(s, ws.context, <<"*">>)
    IN  IF Matched(ws, operator)
        THEN parse_product_loop(s, start_position, operator.position,
                               Append(operands, operand.node))
        ELSE Try(ws, LAMBDA skipped :
             Scan(operator, LAMBDA unmatched :
             Ok(Context(TRUE, operand.context.position),
                ChainNode("Product",
                          ParsePosition(start_position, operand.context.position),
                          Append(operands, operand.node))))))

\* product ::= quotient {[TIMES | '*'] quotient}*
parse_product(s, context) ==
    LET start == parse_whitespace(s, context)
    IN  IF Failed(start) THEN start
        ELSE Try(parse_quotient(s, start.context), LAMBDA left :
             LET ws == parse_whitespace(s, left.context)
                 operator == scan_literal(s, ws.context, <<"*">>)
             IN  IF Matched(ws, operator)
                 THEN parse_product_loop(s, start.context.position, operator.position, <<left.node>>)
                 ELSE Try(ws, LAMBDA skipped :
                      Scan(operator, LAMBDA unmatched :
                      Ok(Context(TRUE, left.context.position), left.node))))

\* the while loop of parse_difference, entered after an operator that ends at position
parse_difference_loop(s, start_position, position, operands) ==
    Try(parse_product(s, Context(TRUE, position)), LAMBDA operand :
    LET ws == parse_whitespace(s, operand.context)
        operator == scan_literal(s, ws.context, <<"-">>)
    IN  IF Matched(ws, operator)
        THEN parse_difference_loop(s, start_position, operator.position,
                                  Append(operands, operand.node))
        ELSE Try(ws, LAMBDA skipped :
             Scan(operator, LAMBDA unmatched :
             Ok(Context(TRUE, operand.context.position),
                ChainNode("Difference",
                          ParsePosition(start_position, operand.context.position),
                          Append(operands, operand.node))))))

\* difference ::= product {'-' product}*
parse_difference(s, context) ==
    LET start == parse_whitespace(s, context)
    IN  IF Failed(start) THEN start
        ELSE Try(parse_product(s, start.context), LAMBDA left :
             LET ws == parse_whitespace(s, left.context)
                 operator == scan_literal(s, ws.context, <<"-">>)
             IN  IF Matched(ws, operator)
                 THEN parse_difference_loop(s, start.context.position, operator.position, <<left.node>>)
                 ELSE Try(ws, LAMBDA skipped :
                      Scan(operator, LAMBDA unmatched :
                      Ok(Context(TRUE, left.context.position), left.node))))

\* the loop of parse_sum ending the sum after the whitespace that follows its
\* last addend
parse_sum_loop_trailing(s, start_position, position, addends) ==
    Try(parse_difference(s, Context(TRUE, position)), LAMBDA operand :
    LET ws == parse_whitespace(s, operand.context)
        operator == scan_literal(s, ws.context, <<"+">>)
    IN  IF Matched(ws, operator)
        THEN parse_sum_loop(s, start_position, operator.position,
                           Append(addends, operand.node))
        ELSE Try(ws, LAMBDA skipped :
             Scan(operator, LAMBDA unmatched :
             Ok(Context(TRUE, ws.context.position),
                ChainNode("Sum",
                          ParsePosition(start_position, ws.context.position),
                          Append(addends, operand.node))))))

\* the while loop of parse_sum, entered after an operator that ends at position
parse_sum_loop(s, start_position, position, addends) ==
    Try(parse_difference(s, Context(TRUE, position)), LAMBDA operand :
    LET ws == parse_whitespace(s, operand.context)
        operator == scan_literal(s, ws.context, <<"+">>)
    IN  IF Matched(ws, operator)
        THEN parse_sum_loop(s, start_position, operator.position,
                           Append(addends, operand.node))
        ELSE Try(ws, LAMBDA skipped :
             Scan(operator, LAMBDA unmatched :
             Ok(Context(TRUE, operand.context.position),
                ChainNode("Sum",
                          ParsePosition(start_position, operand.context.position),
                          Append(addends, operand.node))))))

\* sum ::= difference {'+' difference}*
parse_sum(s, context) ==
    LET start == parse_whitespace(s, context)
    IN  IF Failed(start) THEN start
        ELSE Try(parse_difference(s, start.context), LAMBDA left :
             LET ws == parse_whitespace(s, left.context)
                 operator == scan_literal(s, ws.context, <<"+">>)
             IN  IF Matched(ws, operator)
                 THEN parse_sum_loop(s, start.context.position, operator.position, <<left.node>>)
                 ELSE Try(ws, LAMBDA skipped :
                      Scan(operator, LAMBDA unmatched :
                      Ok(Context(TRUE, left.context.position), left.node))))

\* parse reporting the extra input from the end of the expression
parse_unskipped(s, context) ==
    Try(parse_expression(s, context), LAMBDA expression :
    LET trailing == scan_whitespace(s, expression.context)
        rest == scan_to_end(s, Context(trailing.matched, trailing.position))
    IN  IF Panicked(trailing) THEN Panic
        ELSE IF (~trailing.matched) \/ trailing.position.byte_index < ByteLen(s)
        THEN Scan(rest, LAMBDA end :
             Err("ExtraInput", expression.context.position, end.position))
        ELSE Ok(expression.context, expression.node))

\* parse the whole string: extra input after the expression is an error
parse(s, context) ==
    Try(parse_expression(s, context), LAMBDA expression :
    LET trailing == scan_whitespace(s, expression.context)
        rest == scan_to_end(s, Context(trailing.matched, trailing.position))
    IN  IF Panicked(trailing) THEN Panic
        ELSE IF (~trailing.matched) \/ trailing.position.byte_index < ByteLen(s)
        THEN Scan(rest, LAMBDA end :
             Err("ExtraInput", trailing.position, end.position))
        ELSE Ok(expression.context, expression.node))

(***************************** expression/value.rs *************************)
NaNValue == [kind |-> "NaN"]
IntegerValue(v) == [kind |-> "Integer", value |-> v]
DecimalValue(v) == [kind |-> "Decimal", value |-> v]
\* the evaluation panicked
Trap == [kind |-> "Trap"]
\* a decimal the rationals of the model do not hold
Unmodelled == [kind |-> "Unmodelled"]

\* i32 arithmetic: a result outside the i32 range panics when the build has
\* overflow checks (the debug profile) and wraps when it has none (release)
WrapAdd(a, b) ==
    IF b > 0 /\ a > I32_MAX - b THEN (a + I32_MIN) + (b + I32_MIN)
    ELSE IF b < 0 /\ a < I32_MIN - b THEN (a - I32_MIN) + (b - I32_MIN)
    ELSE a + b

AddOverflows(a, b) == (b > 0 /\ a > I32_MAX - b) \/ (b < 0 /\ a < I32_MIN - b)

WrapNeg(a) == IF a = I32_MIN THEN I32_MIN ELSE -a

SubOverflows(a, b) == (b < 0 /\ a > I32_MAX + b) \/ (b > 0 /\ a < I32_MIN + b)

RECURSIVE WrapMulNat(_, _)
\* a * b modulo 2^32 for b >= 0
WrapMulNat(a, b) ==
    IF b = 0 THEN 0
    ELSE LET half == WrapMulNat(WrapAdd(a, a), b \div 2)
         IN  IF b % 2 = 1 THEN WrapAdd(half, a) ELSE half

WrapMul(a, b) ==
    IF b >= 0 THEN WrapMulNat(a, b)
    ELSE WrapAdd(WrapMulNat(a, b - I32_MIN), IF a % 2 = 1 THEN I32_MIN ELSE 0)

MulOverflows(a, b) ==
    IF a = 0 \/ b = 0 THEN FALSE
    ELSE IF a = I32_MIN THEN b # 1
    ELSE IF b = I32_MIN THEN a # 1
    ELSE IF (a > 0) = (b > 0) THEN Abs(a) > I32_MAX \div Abs(b)
    ELSE IF a > 0 THEN b < (I32_MIN + a - 1) \div a
    ELSE a < (I32_MIN + b - 1) \div b

\* i32 division truncates toward zero; the divisor is not 0 and the
\* quotient is in range
TruncDiv(a, b) ==
    IF b > 0 THEN IF a >= 0 THEN a \div b ELSE (a + b - 1) \div b
    ELSE IF b = I32_MIN THEN IF a = I32_MIN THEN 1 ELSE 0
    ELSE IF a >= 0 THEN -(a \div (-b))
    ELSE -((a + (-b) - 1) \div (-b))

Overflowed(overflow_checks, wrapped) ==
    IF overflow_checks THEN Trap ELSE IntegerValue(wrapped)

AddI32(a, b, overflow_checks) ==
    IF AddOverflows(a, b) THEN Overflowed(overflow_checks, WrapAdd(a, b))
    ELSE IntegerValue(a + b)
SubI32(a, b, overflow_checks) ==
    IF SubOverflows(a, b) THEN Overflowed(overflow_checks, WrapAdd(a, WrapNeg(b)))
    ELSE IntegerValue(a - b)
MulI32(a, b, overflow_checks) ==
    IF MulOverflows(a, b) THEN Overflowed(overflow_checks, WrapMul(a, b))
    ELSE IntegerValue(a * b)
NegI32(a, overflow_checks) ==
    IF a = I32_MIN THEN Overflowed(overflow_checks, I32_MIN) ELSE IntegerValue(-a)

\* the division of i32 panics on the quotient i32::MIN / -1 in every build
DivI32(a, b) == IF a = I32_MIN /\ b = -1 THEN Trap ELSE IntegerValue(TruncDiv(a, b))

\* f64 arithmetic on the rationals of the model; it never panics
AddF64(a, b) == Rational(a.num * b.den + b.num * a.den, a.den * b.den)
SubF64(a, b) == Rational(a.num * b.den - b.num * a.den, a.den * b.den)
MulF64(a, b) == Rational(a.num * b.num, a.den * b.den)
DivF64(a, b) == Rational(a.num * b.den, a.den * b.num)
NegF64(a) == [num |-> -a.num, den |-> a.den]

Absorbing(lhs, rhs) ==
    IF lhs.kind = "Trap" \/ rhs.kind = "Trap" THEN Trap
    ELSE IF lhs.kind = "Unmodelled" \/ rhs.kind = "Unmodelled" THEN Unmodelled
    ELSE NaNValue

IsNumber(v) == v.kind \in {"Integer", "Decimal"}

\* the value of an operand of a decimal operation
Promote(v) == IF v.kind = "Integer" THEN AsDecimal(v.value) ELSE v.value

\* impl Add for &ExpressionValue
Add(lhs, rhs, overflow_checks) ==
    IF ~(IsNumber(lhs) /\ IsNumber(rhs)) THEN Absorbing(lhs, rhs)
    ELSE IF lhs.kind = "Integer" /\ rhs.kind = "Integer" THEN AddI32(lhs.value, rhs.value, overflow_checks)
    ELSE DecimalValue(AddF64(Promote(lhs), Promote(rhs)))

\* impl Sub for &ExpressionValue
Sub(lhs, rhs, overflow_checks) ==
    IF ~(IsNumber(lhs) /\ IsNumber(rhs)) THEN Absorbing(lhs, rhs)
    ELSE IF lhs.kind = "Integer" /\ rhs.kind = "Integer" THEN SubI32(lhs.value, rhs.value, overflow_checks)
    ELSE DecimalValue(SubF64(Promote(lhs), Promote(rhs)))

\* impl Mul for &ExpressionValue
Mul(lhs, rhs, overflow_checks) ==
    IF ~(IsNumber(lhs) /\ IsNumber(rhs)) THEN Absorbing(lhs, rhs)
    ELSE IF lhs.kind = "Integer" /\ rhs.kind = "Integer" THEN MulI32(lhs.value, rhs.value, overflow_checks)
    ELSE DecimalValue(MulF64(Promote(lhs), Promote(rhs)))

\* impl Div for &ExpressionValue
Div(lhs, rhs) ==
    IF ~(IsNumber(lhs) /\ IsNumber(rhs)) THEN Absorbing(lhs, rhs)
    ELSE IF rhs.kind = "Decimal" /\ rhs.value.num = 0 THEN NaNValue
    ELSE IF rhs.kind = "Integer" /\ rhs.value = 0 THEN NaNValue
    ELSE IF lhs.kind = "Integer" /\ rhs.kind = "Integer" THEN DivI32(lhs.value, rhs.value)
    ELSE DecimalValue(DivF64(Promote(lhs), Promote(rhs)))

\* impl Mul<ExpressionValue> for &SignType
SignMul(sign, rhs, overflow_checks) ==
    IF sign = "Positive" THEN rhs
    ELSE CASE rhs.kind = "Integer" -> NegI32(rhs.value, overflow_checks)
           [] rhs.kind = "Decimal" -> DecimalValue(NegF64(rhs.value))
           [] OTHER -> rhs

RECURSIVE PowI32(_, _)
\* integer exponentiation with a non-negative exponent; an arithmetic
\* failure of the evaluator is the value NaN
PowI32(base, exponent) ==
    IF exponent = 0 THEN IntegerValue(1)
    ELSE LET half == PowI32(base, exponent \div 2)
             square == IF half.kind # "Integer" \/ MulOverflows(half.value, half.value)
                       THEN NaNValue
                       ELSE IntegerValue(half.value * half.value)
         IN  IF exponent % 2 = 0 \/ square.kind # "Integer" THEN square
             ELSE IF MulOverflows(square.value, base) THEN NaNValue
             ELSE IntegerValue(square.value * base)

RECURSIVE PowF64(_, _)
\* base to a non-negative integral power
PowF64(base, exponent) ==
    IF exponent = 0 THEN [num |-> 1, den |-> 1]
    ELSE MulF64(base, PowF64(base, exponent - 1))

\* ExpressionValue::power
power(base, exponent) ==
    IF ~(IsNumber(base) /\ IsNumber(exponent)) THEN Absorbing(base, exponent)
    ELSE IF base.kind = "Integer" /\ exponent.kind = "Integer"
    THEN IF exponent.value < 0 THEN IntegerValue(0)
         ELSE PowI32(base.value, exponent.value)
    ELSE LET b == Promote(base)
             e == Promote(exponent)
         IN  IF e.den # 1 \/ (b.num = 0 /\ e.num < 0) THEN Unmodelled
             ELSE IF e.num >= 0 THEN DecimalValue(PowF64(b, e.num))
             ELSE DecimalValue(DivF64([num |-> 1, den |-> 1], PowF64(b, -e.num)))

(***************************** expression/node.rs: evaluate ****************)
\* the compound assignment of each chain kind: +=, -=, *= and /=
ApplyChain(kind, lhs, rhs, overflow_checks) ==
    CASE kind = "Sum" -> Add(lhs, rhs, overflow_checks)
      [] kind = "Difference" -> Sub(lhs, rhs, overflow_checks)
      [] kind = "Product" -> Mul(lhs, rhs, overflow_checks)
      [] kind = "Quotient" -> Div(lhs, rhs)

RECURSIVE evaluate(_, _), evaluate_fold(_, _, _, _)

\* the loop folding the operands from the right end
evaluate_fold_right(kind, accumulator, operands, overflow_checks) ==
    IF accumulator.kind = "Trap" \/ operands = <<>> THEN accumulator
    ELSE LET operand == evaluate(Head(operands), overflow_checks)
         IN  IF operand.kind = "Trap" THEN Trap
             ELSE ApplyChain(kind, accumulator,
                             evaluate_fold(kind, operand, Tail(operands), overflow_checks),
                             overflow_checks)

\* the for loop over operands[1..] of a chain node; a panic in an operand or
\* in the operator ends the evaluation
evaluate_fold(kind, accumulator, operands, overflow_checks) ==
    IF accumulator.kind = "Trap" \/ operands = <<>> THEN accumulator
    ELSE LET operand == evaluate(Head(operands), overflow_checks)
         IN  IF operand.kind = "Trap" THEN Trap
             ELSE evaluate_fold(kind,
                                ApplyChain(kind, accumulator, operand, overflow_checks),
                                Tail(operands), overflow_checks)

\* impl Evaluate for ExpressionNode
\* overflow_checks tells whether the build panics on i32 overflow
evaluate(node, overflow_checks) ==
    CASE node.kind = "NaN" -> NaNValue
      [] node.kind = "Integer" -> IntegerValue(node.value)
      [] node.kind = "Decimal" -> DecimalValue(node.value)
      [] node.kind = "Parenthesis" ->
            SignMul(node.sign, evaluate(node.inner, overflow_checks), overflow_checks)
      [] node.kind \in ChainKinds ->
            IF node.operands = <<>> THEN Trap
            ELSE evaluate_fold(node.kind, evaluate(Head(node.operands), overflow_checks),
                               Tail(node.operands), overflow_checks)
      [] node.kind = "Power" ->
            LET base_value == evaluate(node.base, overflow_checks)
                exponent_value == evaluate(node.exponent, overflow_checks)
            IN  power(base_value, exponent_value)

(***************************** collection/link_list.rs *********************)
\* Option<T>: None, or Some(x) with x.unwrap()
None == <<>>
Some(x) == <<x>>
unwrap(option) == option[1]

\* LinkList{size, list}: the stored length, and the chain of nodes from the
\* head node to the terminal link as the sequence of their elements
LinkList(size, list) == [size |-> size, list |-> list]

new == LinkList(0, <<>>)

is_empty(self) == Len(self.list) = 0

is_not_empty(self) == Len(self.list) > 0

len(self) == self.size

head(self) == IF Len(self.list) > 0 THEN Some(self.list[1]) ELSE None

\* tail keeping the size of a list of two nodes
tail_keeping_size(self) ==
    IF Len(self.list) > 0
    THEN IF Len(self.list) > 2
         THEN Some(LinkList(self.size - 1, Tail(self.list)))
         ELSE IF Len(self.list) > 1
              THEN Some(LinkList(self.size, Tail(self.list)))
              ELSE Some(new)
    ELSE None

tail(self) ==
    IF Len(self.list) > 0
    THEN IF Len(self.list) > 1
         THEN Some(LinkList(self.size - 1, Tail(self.list)))
         ELSE Some(new)
    ELSE None

insert(self, elem) ==
    IF Len(self.list) > 0
    THEN LinkList(self.size + 1, <<elem>> \o self.list)
    ELSE LinkList(1, <<elem>>)

\* loop { match list.tail ... }: the nodes after the head are put in front of
\* the reversed chain one by one
RECURSIVE reverse_loop(_, _)
reverse_loop(reversed, list) ==
    IF Len(list) = 0
    THEN reversed
    ELSE reverse_loop(<<list[1]>> \o reversed, Tail(list))

reverse(self) ==
    IF Len(self.list) > 0
    THEN LinkList(self.size, reverse_loop(<<self.list[1]>>, Tail(self.list)))
    ELSE new

append(self, elem) == reverse(insert(reverse(self), elem))

\* while i < index: the first index elements of list are moved to left
RECURSIVE split_at(_, _, _, _)
split_at(left, list, i, index) ==
    IF i < index
    THEN split_at(insert(left, unwrap(head(list))), unwrap(tail(list)), i + 1, index)
    ELSE [left |-> left, list |-> list, k |-> i]

\* while !left.is_empty(): the elements of left are put back in front of list
RECURSIVE reinsert(_, _)
reinsert(left, list) ==
    IF ~is_empty(left)
    THEN reinsert(unwrap(tail(left)), insert(list, unwrap(head(left))))
    ELSE list

insert_at(self, index, elem) ==
    IF index >= len(self)
    THEN append(self, elem)
    ELSE IF index = 0
         THEN insert(self, elem)
         ELSE LET split == split_at(new, self, 0, index)
              IN  reinsert(split.left, insert(split.list, elem))

concat(self, other) ==
    IF is_empty(self)
    THEN other
    ELSE IF is_empty(other)
         THEN self
         ELSE reverse(reinsert(other, reverse(self)))

remove_at(self, index) ==
    IF is_empty(self) \/ index >= len(self)
    THEN self
    ELSE LET split == split_at(new, self, 0, index)
         IN  reinsert(split.left, unwrap(tail(split.list)))

RECURSIVE nth_loop(_, _, _)
nth_loop(list, i, n) ==
    IF i < n /\ ~is_empty(list)
    THEN nth_loop(unwrap(tail(list)), i + 1, n)
    ELSE list

nth(self, n) == IF n >= len(self) THEN new ELSE nth_loop(self, 0, n)

\* while (k < i) && !list.is_empty(): as split_at, but it stops at the end of
\* the list
RECURSIVE swap_split(_, _, _, _)
swap_split(left, list, k, i) ==
    IF k < i /\ ~is_empty(list)
    THEN swap_split(insert(left, unwrap(head(list))), unwrap(tail(list)), k + 1, i)
    ELSE [left |-> left, list |-> list, k |-> k]

RECURSIVE swap(_, _, _)
swap(self, i, j) ==
    IF is_empty(self) THEN new
    ELSE IF i = j THEN self
    ELSE IF i > j THEN swap(self, j, i)
    ELSE IF i >= len(self) THEN self
    ELSE IF j >= len(self) THEN remove_at(self, i)
    ELSE LET first == swap_split(new, self, 0, i)
             ith == unwrap(head(first.list))
             second == swap_split(new, unwrap(tail(first.list)), first.k + 1, j)
             jth == unwrap(head(second.list))
             list == insert(unwrap(tail(second.list)), ith)
         IN  reinsert(first.left, insert(reinsert(second.left, list), jth))

\* while !right.is_empty(): every permutation of the rest gets the element
\* in front and is inserted in the results
RECURSIVE permute_right(_, _, _)
permute_right(results, right, elem) ==
    IF ~is_empty(right)
    THEN permute_right(insert(results, insert(unwrap(head(right)), elem)),
                       unwrap(tail(right)), elem)
    ELSE results

RECURSIVE permute(_)
RECURSIVE permute_left_stuck(_, _, _, _)
RECURSIVE permute_left(_, _, _, _)

\* the loop of permute removing the head of the list at every turn
permute_left_stuck(self, results, i, left) ==
    IF ~is_empty(left)
    THEN permute_left_stuck(self,
                      permute_right(results, permute(remove_at(self, 0)), unwrap(head(left))),
                      i + 1, unwrap(tail(left)))
    ELSE results

\* while !left.is_empty(): the ith element, the head of left, is put in front
\* of every permutation of the list without it
permute_left(self, results, i, left) ==
    IF ~is_empty(left)
    THEN permute_left(self,
                      permute_right(results, permute(remove_at(self, i)), unwrap(head(left))),
                      i + 1, unwrap(tail(left)))
    ELSE results

permute(self) ==
    IF is_empty(self)
    THEN new
    ELSE IF len(self) = 1
         THEN insert(new, self)
         ELSE permute_left(self, new, 0, self)

RECURSIVE find(_, _)
find(self, element) ==
    IF ~is_empty(self)
    THEN IF unwrap(head(self)) = element
         THEN self
         ELSE find(unwrap(tail(self)), element)
    ELSE self

\* the mapper is a function of the elements
RECURSIVE map_loop(_, _, _)
map_loop(mapped_list, list, mapper) ==
    IF ~is_empty(list)
    THEN map_loop(insert(mapped_list, mapper[unwrap(head(list))]), unwrap(tail(list)), mapper)
    ELSE mapped_list

map(self, mapper) ==
    IF is_empty(self) THEN new ELSE reverse(map_loop(new, self, mapper))

\* the predicate is a function of the elements to BOOLEAN
RECURSIVE filter_loop(_, _, _)
filter_loop(return_list, list, predicate) ==
    IF ~is_empty(list)
    THEN filter_loop(IF predicate[unwrap(head(list))]
                     THEN insert(return_list, unwrap(head(list)))
                     ELSE return_list,
                     unwrap(tail(list)), predicate)
    ELSE return_list

filter(self, predicate) ==
    IF is_empty(self) THEN self ELSE reverse(filter_loop(new, self, predicate))

RECURSIVE fatten_loop(_, _)
fatten_loop(return_list, list) ==
    IF ~is_empty(list)
    THEN fatten_loop(insert(return_list, insert(new, unwrap(head(list)))), unwrap(tail(list)))
    ELSE return_list

fatten(self) == reverse(fatten_loop(new, self))

\* while !list.is_empty(): the list of the accumulator is extended by every
\* element of the flat list
RECURSIVE combine_list(_, _, _)
combine_list(combined, fathead, list) ==
    IF ~is_empty(list)
    THEN combine_list(insert(combined, append(fathead, unwrap(head(list)))),
                      fathead, unwrap(tail(list)))
    ELSE combined

\* while !fatlist.is_empty()
RECURSIVE combine_fatlist(_, _, _)
combine_fatlist(combined, fatlist, flatlist) ==
    IF ~is_empty(fatlist)
    THEN combine_fatlist(combine_list(combined, unwrap(head(fatlist)), flatlist),
                         unwrap(tail(fatlist)), flatlist)
    ELSE combined

combine(self, flatlist) ==
    IF is_empty(flatlist)
    THEN self
    ELSE IF is_empty(self)
         THEN fatten(flatlist)
         ELSE combine_fatlist(new, self, flatlist)

RECURSIVE accumulate_combinations(_, _)
accumulate_combinations(self, accumulator) ==
    IF is_empty(self)
    THEN accumulator
    ELSE accumulate_combinations(unwrap(tail(self)), combine(accumulator, unwrap(head(self))))

combinations(self) == accumulate_combinations(self, new)

(***************************** commute/helper.rs ***************************)
\* the decimal digits of a natural number
RECURSIVE NatDigits(_)
NatDigits(n) ==
    IF n < 10
    THEN <<CHOOSE ch \in {"0", "1", "2", "3", "4", "5", "6", "7", "8", "9"} : DigitValue(ch) = n>>
    ELSE NatDigits(n \div 10) \o NatDigits(n % 10)

\* the digits after the '.' of a fraction below one with a power of ten as
\* denominator
RECURSIVE FractionDigits(_, _)
FractionDigits(num, den) ==
    IF num = 0 THEN <<>>
    ELSE NatDigits((num * 10) \div den) \o FractionDigits((num * 10) % den, den)

\* ExpressionNode::to_string(): numbers in base 10 with a leading '-' when
\* negative, a parenthesis as '(' inner ')' with a leading '-' when its sign
\* is negative, binary operators between single spaces
RECURSIVE to_string(_)
to_string(node) ==
    CASE node.kind = "Integer" ->
            (IF node.value < 0 THEN <<"-">> ELSE <<>>) \o NatDigits(Abs(node.value))
      [] node.kind = "Decimal" ->
            LET num == Abs(node.value.num)
                den == node.value.den
                fraction == FractionDigits(num % den, den)
            IN  (IF node.value.num < 0 THEN <<"-">> ELSE <<>>)
                    \o NatDigits(num \div den) \o <<".">>
                    \o (IF fraction = <<>> THEN <<"0">> ELSE fraction)
      [] node.kind = "Parenthesis" ->
            (IF node.sign = "Negative" THEN <<"-">> ELSE <<>>)
                \o <<"(">> \o to_string(node.inner) \o <<")">>
      [] node.kind = "Power" ->
            to_string(node.base) \o <<" ", "^", " ">> \o to_string(node.exponent)
      [] node.kind \in ChainKinds ->
            LET operator == CASE node.kind = "Sum" -> "+"
                              [] node.kind = "Difference" -> "-"
                              [] node.kind = "Product" -> "*"
                              [] node.kind = "Quotient" -> "/"
                RECURSIVE Chained(_)
                Chained(i) ==
                    IF i = 1 THEN to_string(node.operands[1])
                    ELSE Chained(i - 1) \o <<" ", operator, " ">> \o to_string(node.operands[i])
            IN  Chained(Len(node.operands))
      [] OTHER -> <<"N", "a", "N">>

\* what a function of the module has come to: the value it returned, or the
\* abort of the process when a String cannot grow any more
Returned(output) == [status |-> "Ok", output |-> output]
Aborted(s) == [status |-> "Abort", output |-> s]

\* s.push(' '); s += &operator; s.push(' '); s += &operands.head().unwrap().to_string();
\* the body of the while loop of formatStringOperands: no statement of it
\* assigns operands
formatStringOperands_push(s, operands, operator) ==
    s \o <<" ">> \o operator \o <<" ">> \o unwrap(head(operands))

\* while operands.is_not_empty(): the String grows until its capacity is used up
RECURSIVE formatStringOperands_while(_, _, _)
formatStringOperands_while(s, operands, operator) ==
    IF is_not_empty(operands)
    THEN IF Len(formatStringOperands_push(s, operands, operator)) > MaxStringLen
         THEN Aborted(s)
         ELSE formatStringOperands_while(formatStringOperands_push(s, operands, operator),
                                         operands, operator)
    ELSE Returned(s)

formatStringOperands(operands, operator) ==
    IF is_empty(operands)
    THEN Returned(<<>>)
    ELSE formatStringOperands_while(unwrap(head(operands)), unwrap(tail(operands)), operator)

\* while listOfOperandCombinations.is_not_empty(): every combination is
\* formatted with the operator and inserted in the result
RECURSIVE format_combinations(_, _, _)
format_combinations(result_list, listOfOperandCombinations, operator) ==
    IF is_not_empty(listOfOperandCombinations)
    THEN Try(formatStringOperands(unwrap(head(listOfOperandCombinations)), operator),
             LAMBDA formatted :
             format_combinations(insert(result_list, formatted.output),
                                 unwrap(tail(listOfOperandCombinations)), operator))
    ELSE Returned(result_list)

\* while permutedChains.len() > 0: the combinations of every permuted chain
\* are formatted with "+"
RECURSIVE format_chains(_, _)
format_chains(result_list, permutedChains) ==
    IF len(permutedChains) > 0
    THEN Try(format_combinations(result_list,
                                 combinations(unwrap(head(permutedChains))), <<"+">>),
             LAMBDA formatted :
             format_chains(formatted.output, unwrap(tail(permutedChains))))
    ELSE Returned(result_list)

\* while e.is_not_empty(): result.append(format!("({})", e.head().unwrap()))
RECURSIVE parenthesize(_, _)
parenthesize(result_list, e) ==
    IF is_not_empty(e)
    THEN parenthesize(append(result_list, <<"(">> \o unwrap(head(e)) \o <<")">>),
                      unwrap(tail(e)))
    ELSE result_list

RECURSIVE generateCommutedExpressions(_)
RECURSIVE permuted_operands(_, _)

\* for operand in operands: the commuted expressions of every operand are
\* appended, and the ? operator returns the first failure
permuted_operands(permutedOperands, operands) ==
    IF Len(operands) = 0
    THEN Returned(permutedOperands)
    ELSE Try(generateCommutedExpressions(to_string(operands[1])), LAMBDA commuted :
             permuted_operands(append(permutedOperands, commuted.output), Tail(operands)))

\* the operator handed over is not used
commute_chained_operands(position, operands, operator) ==
    Try(permuted_operands(new, operands), LAMBDA permutedOperands :
        format_chains(new, permute(permutedOperands.output)))

commute_nested_expressions(position, operands, operator) ==
    Try(permuted_operands(new, operands), LAMBDA permutedOperands :
        IF is_not_empty(permutedOperands.output)
        THEN format_combinations(new, combinations(permutedOperands.output), operator)
        ELSE Returned(new))

generateCommutedExpressions(theExpressionText) ==
    Try(parse(theExpressionText, beginning), LAMBDA parsed :
        CASE parsed.node.kind = "Parenthesis" ->
                Try(generateCommutedExpressions(to_string(parsed.node.inner)),
                    LAMBDA inner_expressions :
                    Returned(parenthesize(new, inner_expressions.output)))
          [] parsed.node.kind = "Sum" ->
                commute_chained_operands(parsed.node.position, parsed.node.operands, <<"*">>)
          [] parsed.node.kind = "Product" ->
                commute_chained_operands(parsed.node.position, parsed.node.operands, <<"+">>)
          [] parsed.node.kind = "Difference" ->
                commute_nested_expressions(parsed.node.position, parsed.node.operands, <<"-">>)
          [] parsed.node.kind = "Quotient" ->
                commute_nested_expressions(parsed.node.position, parsed.node.operands, <<"/">>)
          [] OTHER -> Returned(insert(new, to_string(parsed.node))))

(***************************** inputs **************************************)
\* the strings of at most n characters over an alphabet
Strings(alphabet, n) == UNION {[1..k -> alphabet] : k \in 0..n}

Alphabet == {"0", "1", "2", " ", "+", "-", "*", "/", "^", "(", ")", ".", TIMES}

CoreAlphabet == {"1", "2", " ", "+", "-", "*", "/", "^"}

\* inputs of the tests of parse.rs and of the specification, and the
\* literals at the ends of the i32 range
TimesQuotientInput == <<"1", "*", "2", "/", "3">>
DifferenceSumInput == <<"1", "-", "2", "+", "3">>
SpacedPowerInput == <<"2", ".", "0", " ", "^", " ", "-", "1">>
PowerInput == <<"2", ".", "0", "^", "-", "1">>
NegativeBaseInput == <<"-", "2", "^", "1", "6">>
TooLargeInput == <<"2", "1", "4", "7", "4", "8", "3", "6", "4", "8">>
MinIntegerInput == <<"-", "2", "1", "4", "7", "4", "8", "3", "6", "4", "8">>
MaxIntegerInput == <<"2", "1", "4", "7", "4", "8", "3", "6", "4", "7">>
TooSmallInput == <<"-", "2", "1", "4", "7", "4", "8", "3", "6", "4", "9">>
MissingOperandInput == <<"1", " ", "+", " ">>
UnclosedInput == <<"(", "1">>
MissingFractionInput == <<"1", ".">>
MissingExponentInput == <<"1", "e">>
ExponentInput == <<"1", "e", "2">>
MinQuotientInput == <<"-", "2", "1", "4", "7", "4", "8", "3", "6", "4", "8", " ", "/", " ", "-", "1">>
SumOverflowInput == <<"2", "1", "4", "7", "4", "8", "3", "6", "4", "7", " ", "+", " ", "1">>
DifferenceOverflowInput == <<"-", "2", "1", "4", "7", "4", "8", "3", "6", "4", "8", " ", "-", " ", "1">>
ProductOverflowInput == <<"6", "5", "5", "3", "6", " ", "*", " ", "6", "5", "5", "3", "6">>
TrappedZeroDivisorInput == <<"-", "2", "1", "4", "7", "4", "8", "3", "6", "4", "8", " ", "/", " ", "-", "1", " ", "/", " ", "0">>
OverflowZeroDivisorInput == <<"2", "1", "4", "7", "4", "8", "3", "6", "4", "7", " ", "+", " ", "1", " ", "+", " ", "3", " ", "/", " ", "0">>
DifferenceChainInput == <<"1", " ", "-", " ", "2", " ", "-", " ", "3">>
QuotientChainInput == <<" ", "3", " ", "/", " ", "2", " ", "/", " ", "1">>
IntegerExpressionInput == <<" ", "(", "(", "(", "1", "0", " ", "+", " ", "5", ")", " ", "*", " ", "-", "6", ")", " ", "-", " ", "-", "2", "0", " ", "/", " ", "-", "2", " ", "*", " ", "3", " ", "+", " ", "-", "(", "(", "5", "*", "2", ")", "^", "2", ")", " ", "-", " ", "(", "-", "5", " ", "*", " ", "-", "2", " ", "*", " ", "5", ")", ")", " ">>
NegatedMinInput == <<"-", "(", "-", "2", "1", "4", "7", "4", "8", "3", "6", "4", "8", ")">>

Samples ==
    {TimesQuotientInput,
     DifferenceSumInput,
     SpacedPowerInput,
     PowerInput,
     NegativeBaseInput,
     TooLargeInput,
     MinIntegerInput,
     MaxIntegerInput,
     TooSmallInput,
     MissingOperandInput,
     UnclosedInput,
     MissingFractionInput,
     MissingExponentInput,
     MinQuotientInput,
     SumOverflowInput,
     DifferenceOverflowInput,
     ProductOverflowInput,
     NegatedMinInput, ExponentInput,
     TrappedZeroDivisorInput, OverflowZeroDivisorInput,
     <<"1", "2", "3", ".", "4", "e", "1">>,
     <<"1", "2", "3", ".", "4", "E", "1">>,
     <<"1", "e", "-", "5">>,
     <<"-", "1", "2", "3", "4", ".", "0">>,
     <<"-", "1", "2", "3", "4", "E", "0">>,
     <<" ", "(", " ", "1", "2", "3", "4", " ", ")", " ", "+", " ", "-", "2", "^", "1", "6", " ", "+", " ", "-", "(", " ", "3", "0", ".", "0", "^", "2", " ", "+", " ", "7", "8", ".", "0", " ", " ", ")", " ">>,
     <<" ", "(", " ", "1", "2", "3", "4", " ", ")", " ", "-", " ", "-", "2", "^", "1", "6", " ", "-", " ", "-", "(", " ", "3", "0", ".", "0", "^", "2", " ", "+", " ", "7", "8", ".", "0", " ", " ", ")", " ">>,
     <<"3", " ", "/", " ", "0", " ", "/", " ", "1">>,
     <<" ", "3", ".", "0", " ", "/", " ", "0", ".", "0", " ", "/", " ", "1", ".", "0", " ">>,
     DifferenceChainInput,
     QuotientChainInput,
     <<" ", "1", " ", "*", " ", "2", " ", "*", " ", "3", ".", "0", " ">>,
     <<" ", "3", ".", "0", " ", "/", " ", "2", " ", "/", " ", "1", ".", "0", " ">>,
     IntegerExpressionInput,
     <<"2", TIMES, "3">>,
     <<"6", OBELUS, "2">>,
     <<"1", " ", "+", NEWLINE, "2">>,
     <<" ", "-", "(", " ", "-", "(", " ", "1", "2", "3", "4", " ", ")", " ", ")", " ">>,
     <<"1", "^", "2", "^", "3">>,
     <<"(", "1", " ", "x">>,
     <<"1", " ", "+", " ", "x">>,
     <<"1", " ", "2">>,
     <<" ", "3", "^", "-", "1">>,
     <<"1", ".", "5", "e">>,
     <<"2", "^", " ", "2">>,
     <<"-", "(", "2", ")", "^", "2">>,
     <<"-", " ", "1">>,
     <<"-", " ", "(", "1", ")">>}

Inputs == Strings(Alphabet, MaxLen) \cup Strings(CoreAlphabet, MaxCoreLen) \cup Samples

(***************************** the program: main.rs ************************)
NoResult == [status |-> "None"]
NoValue == [kind |-> "None"]

\* the call of a scanner: the context the first scanner of the sequence was
\* given, the context given to the scanner, the scanner, and what it returned
Scanned(origin, input, scanner, output) ==
    [origin |-> origin, input |-> input, scanner |-> scanner, output |-> output]

NoScanner == Scanner("none", <<>>, "any", 0, <<>>)
NoScan == Scanned(beginning, beginning, NoScanner, beginning)

\* no function of LinkList has been called
NoCall == [op |-> "none"]

Init ==
    /\ src \in Inputs
    /\ pc = "start"
    /\ result = NoResult
    /\ value = NoValue
    /\ scanning = NoScan
    /\ linked = new
    /\ called = NoCall

\* parse(&s, beginning())
Parse ==
    /\ pc = "start"
    /\ result' = parse(src, beginning)
    /\ pc' = "parsed"
    /\ UNCHANGED <<src, value, scanning, linked, called>>

\* expression.evaluate() of the node of a successful parse, in a build with
\* or without overflow checks
Evaluate ==
    /\ pc = "parsed"
    /\ result.status = "Ok"
    /\ \E overflow_checks \in BOOLEAN :
          LET v == evaluate(result.node, overflow_checks)
          IN  /\ v.kind # "Unmodelled"
              /\ value' = v
    /\ pc' = "evaluated"
    /\ UNCHANGED <<src, result, scanning, linked, called>>

Next == Parse \/ Evaluate

Spec == Init /\ [][Next]_vars

(***************************** the scanners in sequence ********************)
ScanAlphabet == {"a", NEWLINE, TIMES}

ScanSources == Strings(ScanAlphabet, MaxScanLen)

Literals == {<<"a">>, <<NEWLINE>>, <<"a", NEWLINE>>}

ScanTests == {"alphabetic", "newline", "any"}

\* the scanners the tests of scanner.rs hand to the combinators
scan_1_or_more_alphabetic == OneOrMoreScanner("alphabetic")
scan_0_or_more_alphanumeric == ZeroOrMoreScanner("alphanumeric")
scan_0_chars == NCharsScanner(0, "alphanumeric")
scan_new_line == NCharsScanner(1, "newline")
scan_line == PairScanner(ZeroOrMoreScanner("alphabetic"), scan_new_line)

ScannerFns ==
    {scan_1_or_more_alphabetic, scan_0_or_more_alphanumeric, scan_0_chars,
     scan_new_line, scan_line, LiteralScanner(<<NEWLINE>>)}

\* ScanPosition::new(b, b, 0, 0, 0)
AtByte(b) == ScanPosition(b, b, 0, 0, 0)

\* the contexts a sequence of scanners starts from: the beginning, a context
\* that did not match, and a matched context at each byte index up to one
\* past the end of the source
Origins(s) ==
    {beginning, Context(FALSE, DefaultPosition)}
        \cup {Context(TRUE, AtByte(b)) : b \in 1..(ByteLen(s) + 1)}

ScanInit ==
    /\ src \in ScanSources
    /\ pc = "ready"
    /\ result = NoResult
    /\ value = NoValue
    /\ \E origin \in Origins(src) : scanning = Scanned(origin, origin, NoScanner, origin)
    /\ linked = new
    /\ called = NoCall

\* let result = scanner(s, result): each action calls one scanning function
\* with the context the scanner before it returned
ScanLiteral ==
    /\ pc = "ready"
    /\ \E literal \in Literals :
          scanning' = Scanned(scanning.origin, scanning.output, LiteralScanner(literal),
                              scan_literal(src, scanning.output, literal))
    /\ pc' = "scanned"
    /\ UNCHANGED <<src, result, value, linked, called>>

ScanZeroOrMoreChars ==
    /\ pc = "ready"
    /\ \E test \in ScanTests :
          scanning' = Scanned(scanning.origin, scanning.output, ZeroOrMoreScanner(test),
                              scan_zero_or_more_chars(src, scanning.output, test))
    /\ pc' = "scanned"
    /\ UNCHANGED <<src, result, value, linked, called>>

ScanOneOrMoreChars ==
    /\ pc = "ready"
    /\ \E test \in ScanTests :
          scanning' = Scanned(scanning.origin, scanning.output, OneOrMoreScanner(test),
                              scan_one_or_more_chars(src, scanning.output, test))
    /\ pc' = "scanned"
    /\ UNCHANGED <<src, result, value, linked, called>>

ScanNChars ==
    /\ pc = "ready"
    /\ \E n \in 0..MaxScanLen, test \in ScanTests :
          scanning' = Scanned(scanning.origin, scanning.output, NCharsScanner(n, test),
                              scan_n_chars(src, scanning.output, n, test))
    /\ pc' = "scanned"
    /\ UNCHANGED <<src, result, value, linked, called>>

ScanPair ==
    /\ pc = "ready"
    /\ \E scanner_left \in ScannerFns, scanner_right \in ScannerFns :
          scanning' = Scanned(scanning.origin, scanning.output, PairScanner(scanner_left, scanner_right),
                              scan_pair(src, scanning.output, scanner_left, scanner_right))
    /\ pc' = "scanned"
    /\ UNCHANGED <<src, result, value, linked, called>>

ScanAll ==
    /\ pc = "ready"
    /\ \E scanners \in Strings(ScannerFns, MaxScanners) :
          scanning' = Scanned(scanning.origin, scanning.output, AllScanner(scanners),
                              scan_all(src, scanning.output, scanners))
    /\ pc' = "scanned"
    /\ UNCHANGED <<src, result, value, linked, called>>

ScanAny ==
    /\ pc = "ready"
    /\ \E scanners \in Strings(ScannerFns, MaxScanners) :
          scanning' = Scanned(scanning.origin, scanning.output, AnyScanner(scanners),
                              scan_any(src, scanning.output, scanners))
    /\ pc' = "scanned"
    /\ UNCHANGED <<src, result, value, linked, called>>

\* the caller goes on with the context returned, unless the scanner panicked
Resume ==
    /\ pc = "scanned"
    /\ ~Panicked(scanning.output)
    /\ scanning' = Scanned(scanning.origin, scanning.output, NoScanner, scanning.output)
    /\ pc' = "ready"
    /\ UNCHANGED <<src, result, value, linked, called>>

ScanNext ==
    \/ ScanLiteral
    \/ ScanZeroOrMoreChars
    \/ ScanOneOrMoreChars
    \/ ScanNChars
    \/ ScanPair
    \/ ScanAll
    \/ ScanAny
    \/ Resume

ScanSpec == ScanInit /\ [][ScanNext]_vars

(***************************** a list under its operations *****************)
Elements == {"A", "B", "C", "D"}

\* LinkList::of_one .. of_eight: the elements are inserted from the last one
RECURSIVE of(_)
of(elems) == IF Len(elems) = 0 THEN new ELSE insert(of(Tail(elems)), elems[1])

\* the lists of at most n elements
Lists(n) == {of(elems) : elems \in Strings(Elements, n)}

Indexes == 0..MaxListLen

\* fn(&T) -> R
Mappers ==
    {[e \in Elements |-> "A"],
     [e \in Elements |-> IF e = "A" THEN "B" ELSE IF e = "B" THEN "C"
                         ELSE IF e = "C" THEN "D" ELSE "A"]}

\* fn(&T) -> bool
Predicates ==
    {[e \in Elements |-> e \in accepted] : accepted \in {{}, {"A"}, {"B", "C"}, Elements}}

\* the call of a function of LinkList: the list it was called on, its
\* arguments, and the list or option it returned
Called(op, self, index, arg, output) ==
    [op |-> op, self |-> self, index |-> index, arg |-> arg, output |-> output]

ListInit ==
    /\ src = <<>>
    /\ pc = "list"
    /\ result = NoResult
    /\ value = NoValue
    /\ scanning = NoScan
    /\ linked = new
    /\ called = NoCall

Insert ==
    /\ pc = "list"
    /\ len(linked) < MaxListLen
    /\ \E elem \in Elements :
          /\ linked' = insert(linked, elem)
          /\ called' = Called("insert", linked, 0, elem, insert(linked, elem))
    /\ UNCHANGED <<src, pc, result, value, scanning>>

ListAppend ==
    /\ pc = "list"
    /\ len(linked) < MaxListLen
    /\ \E elem \in Elements :
          /\ linked' = append(linked, elem)
          /\ called' = Called("append", linked, 0, elem, append(linked, elem))
    /\ UNCHANGED <<src, pc, result, value, scanning>>

ListInsertAt ==
    /\ pc = "list"
    /\ len(linked) < MaxListLen
    /\ \E index \in Indexes, elem \in Elements :
          /\ linked' = insert_at(linked, index, elem)
          /\ called' = Called("insert_at", linked, index, elem, insert_at(linked, index, elem))
    /\ UNCHANGED <<src, pc, result, value, scanning>>

RemoveAt ==
    /\ pc = "list"
    /\ \E index \in Indexes :
          /\ linked' = remove_at(linked, index)
          /\ called' = Called("remove_at", linked, index, 0, remove_at(linked, index))
    /\ UNCHANGED <<src, pc, result, value, scanning>>

\* list = list.tail().unwrap() of a list that has a tail; tail() of the empty
\* list is None and the list stays
ListTail ==
    /\ pc = "list"
    /\ linked' = IF tail(linked) = None THEN linked ELSE unwrap(tail(linked))
    /\ called' = Called("tail", linked, 0, 0, tail(linked))
    /\ UNCHANGED <<src, pc, result, value, scanning>>

Reverse ==
    /\ pc = "list"
    /\ linked' = reverse(linked)
    /\ called' = Called("reverse", linked, 0, 0, reverse(linked))
    /\ UNCHANGED <<src, pc, result, value, scanning>>

Concat ==
    /\ pc = "list"
    /\ len(linked) < MaxListLen
    /\ \E other \in Lists(MaxListLen - len(linked)) :
          /\ linked' = concat(linked, other)
          /\ called' = Called("concat", linked, 0, other, concat(linked, other))
    /\ UNCHANGED <<src, pc, result, value, scanning>>

Swap ==
    /\ pc = "list"
    /\ \E i \in Indexes, j \in Indexes :
          /\ linked' = swap(linked, i, j)
          /\ called' = Called("swap", linked, i, j, swap(linked, i, j))
    /\ UNCHANGED <<src, pc, result, value, scanning>>

Nth ==
    /\ pc = "list"
    /\ \E n \in Indexes :
          /\ linked' = nth(linked, n)
          /\ called' = Called("nth", linked, n, 0, nth(linked, n))
    /\ UNCHANGED <<src, pc, result, value, scanning>>

Map ==
    /\ pc = "list"
    /\ \E mapper \in Mappers :
          /\ linked' = map(linked, mapper)
          /\ called' = Called("map", linked, 0, mapper, map(linked, mapper))
    /\ UNCHANGED <<src, pc, result, value, scanning>>

Filter ==
    /\ pc = "list"
    /\ \E predicate \in Predicates :
          /\ linked' = filter(linked, predicate)
          /\ called' = Called("filter", linked, 0, predicate, filter(linked, predicate))
    /\ UNCHANGED <<src, pc, result, value, scanning>>

\* self.permute(): the list of the permutations is returned, the list stays
Permute ==
    /\ pc = "list"
    /\ called' = Called("permute", linked, 0, 0, permute(linked))
    /\ UNCHANGED <<src, pc, result, value, scanning, linked>>

ListNext ==
    \/ Insert
    \/ ListAppend
    \/ ListInsertAt
    \/ RemoveAt
    \/ ListTail
    \/ Reverse
    \/ Concat
    \/ Swap
    \/ Nth
    \/ Map
    \/ Filter
    \/ Permute

ListSpec == ListInit /\ [][ListNext]_vars

(***************************** a list of lists combined ********************)
FatElements == {"a", "b"}

\* the lists that are the elements of a list of lists
FlatLists == {of(elems) : elems \in Strings(FatElements, MaxFlatLen)}

\* LinkList<LinkList<T>>
FatLists == {of(lists) : lists \in Strings(FlatLists, MaxFatLen)}

CombineInit ==
    /\ src = <<>>
    /\ pc = "fatlist"
    /\ result = NoResult
    /\ value = NoValue
    /\ scanning = NoScan
    /\ linked \in FatLists
    /\ called = NoCall

\* self.combinations()
Combinations ==
    /\ pc = "fatlist"
    /\ called' = Called("combinations", linked, 0, 0, combinations(linked))
    /\ UNCHANGED <<src, pc, result, value, scanning, linked>>

\* self.combine(flatlist)
Combine ==
    /\ pc = "fatlist"
    /\ \E flatlist \in FlatLists :
          called' = Called("combine", linked, 0, flatlist, combine(linked, flatlist))
    /\ UNCHANGED <<src, pc, result, value, scanning, linked>>

CombineNext == Combinations \/ Combine

CombineSpec == CombineInit /\ [][CombineNext]_vars

(***************************** the commuted expressions ********************)
CommuteAlphabet == {"1", "2", "+", "-", "*", "/"}

CommuteSamples ==
    {<<"2", " ", "-", " ", "3">>,
     <<"3", " ", "-", " ", "2">>,
     <<"1", " ", "*", " ", "2", " ", "*", " ", "3">>,
     <<"2", " ", "*", " ", "3", " ", "+", " ", "4", " ", "*", " ", "5">>,
     <<"2", " ", "*", " ", "3", " ", "-", " ", "4", " ", "*", " ", "5">>,
     <<"(", "1", ")">>,
     <<"-", "(", "1", "2", ")">>,
     <<"(", "1", " ", "+", " ", "2", ")">>,
     <<"1", ".", "5">>}

CommuteInputs == Strings(CommuteAlphabet, MaxCommuteLen) \cup CommuteSamples

CommuteInit ==
    /\ src \in CommuteInputs
    /\ pc = "start"
    /\ result = NoResult
    /\ value = NoValue
    /\ scanning = NoScan
    /\ linked = new
    /\ called = NoCall

\* generateCommutedExpressions(theExpressionText)
Commute ==
    /\ pc = "start"
    /\ called' = Called("generateCommutedExpressions", new, 0, src,
                        generateCommutedExpressions(src))
    /\ pc' = "commuted"
    /\ UNCHANGED <<src, result, value, scanning, linked>>

CommuteNext == Commute

CommuteSpec == CommuteInit /\ [][CommuteNext]_vars

(***************************** formatStringOperands step by step ***********)
Operands == {<<"1">>, <<"2">>}

Operators == {<<"+">>, <<"-">>, <<"*">>, <<"/">>}

\* LinkList<String>
OperandLists == {of(operands) : operands \in Strings(Operands, MaxOperands)}

\* the call of formatStringOperands(operands, operator): linked is the
\* variable operands, and the output of the call is the String s
FormatInit ==
    /\ src = <<>>
    /\ pc = "format"
    /\ result = NoResult
    /\ value = NoValue
    /\ scanning = NoScan
    /\ linked \in OperandLists
    /\ \E operator \in Operators :
          called = Called("formatStringOperands", linked, 0, operator, <<>>)

\* if operands.is_empty() { return "".to_owned(); }
FormatEmpty ==
    /\ pc = "format"
    /\ is_empty(linked)
    /\ pc' = "returned"
    /\ called' = [called EXCEPT !.output = <<>>]
    /\ UNCHANGED <<src, result, value, scanning, linked>>

\* let mut s = operands.head().unwrap().to_string(); operands = operands.tail().unwrap();
FormatHead ==
    /\ pc = "format"
    /\ ~is_empty(linked)
    /\ called' = [called EXCEPT !.output = unwrap(head(linked))]
    /\ linked' = unwrap(tail(linked))
    /\ pc' = "while"
    /\ UNCHANGED <<src, result, value, scanning>>

\* one turn of the while loop
FormatPush ==
    /\ pc = "while"
    /\ is_not_empty(linked)
    /\ Len(formatStringOperands_push(called.output, linked, called.arg)) <= MaxStringLen
    /\ called' = [called EXCEPT !.output = formatStringOperands_push(called.output, linked, called.arg)]
    /\ UNCHANGED <<src, pc, result, value, scanning, linked>>

\* the String cannot grow: the process is aborted
FormatAbort ==
    /\ pc = "while"
    /\ is_not_empty(linked)
    /\ Len(formatStringOperands_push(called.output, linked, called.arg)) > MaxStringLen
    /\ pc' = "aborted"
    /\ UNCHANGED <<src, result, value, scanning, linked, called>>

\* return s
FormatReturn ==
    /\ pc = "while"
    /\ ~is_not_empty(linked)
    /\ pc' = "returned"
    /\ UNCHANGED <<src, result, value, scanning, linked, called>>

FormatNext ==
    \/ FormatEmpty
    \/ FormatHead
    \/ FormatPush
    \/ FormatAbort
    \/ FormatReturn

\* the function runs on its own thread of control: a step that can be taken
\* is taken
FormatSpec == FormatInit /\ [][FormatNext]_vars /\ WF_vars(FormatNext)

(***************************** properties **********************************)
RECURSIVE Nodes(_)
\* a node and all the nodes below it, in source order
Nodes(n) ==
    <<n>> \o
    CASE n.kind = "Parenthesis" -> Nodes(n.inner)
      [] n.kind = "Power" -> Nodes(n.base) \o Nodes(n.exponent)
      [] n.kind \in ChainKinds ->
            LET RECURSIVE Below(_)
                Below(i) == IF i = 0 THEN <<>>
                            ELSE Below(i - 1) \o Nodes(n.operands[i])
            IN  Below(Len(n.operands))
      [] OTHER -> <<>>

RECURSIVE SameShape(_, _)
\* two nodes have the same kind, values and operands; the spans may differ
SameShape(a, b) ==
    /\ a.kind = b.kind
    /\ CASE a.kind \in {"Integer", "Decimal"} -> a.value = b.value
         [] a.kind = "Parenthesis" -> a.sign = b.sign /\ SameShape(a.inner, b.inner)
         [] a.kind = "Power" ->
               SameShape(a.base, b.base) /\ SameShape(a.exponent, b.exponent)
         [] a.kind \in ChainKinds ->
               /\ Len(a.operands) = Len(b.operands)
               /\ \A i \in 1..Len(a.operands) : SameShape(a.operands[i], b.operands[i])
         [] OTHER -> TRUE

\* a span for the nodes that the properties compare shapes with
NoSpan == ParsePosition(DefaultPosition, DefaultPosition)

\* the number of occurrences of a character in a string
Count(s, ch) == Cardinality({i \in 1..Len(s) : s[i] = ch})

\* the operator character of a chain kind
OperatorOf(kind) ==
    CASE kind = "Sum" -> "+" [] kind = "Difference" -> "-"
      [] kind = "Product" -> "*" [] kind = "Quotient" -> "/"

RECURSIVE OperatorsOf(_, _)
\* the number of operators a tree accounts for: one between two neighbouring
\* operands of each chain node of the kind
OperatorsOf(n, kind) ==
    CASE n.kind = "Parenthesis" -> OperatorsOf(n.inner, kind)
      [] n.kind = "Power" -> OperatorsOf(n.base, kind) + OperatorsOf(n.exponent, kind)
      [] n.kind \in ChainKinds ->
            LET RECURSIVE Below(_)
                Below(i) == IF i = 0 THEN 0
                            ELSE OperatorsOf(n.operands[i], kind) + Below(i - 1)
            IN  Below(Len(n.operands))
                + (IF n.kind = kind THEN Len(n.operands) - 1 ELSE 0)
      [] OTHER -> 0

Parsed == pc # "start"
ParsedOk == pc # "start" /\ result.status = "Ok"
ParsedErr(kind) == pc # "start" /\ result.status = "Err" /\ result.error.kind = kind

\* C1: every Sum, Difference, Product and Quotient node of a returned AST has
\* at least two operands, and a chain level that consumes no operator returns
\* the bare operand: the tree has one operand more than operators at every
\* chain node, so it has exactly as many '+', '*' and '/' operators as the
\* input has such characters and no more '-' operators than the input has.
C1_ChainOperands ==
    ParsedOk =>
        /\ LET nodes == Nodes(result.node)
           IN  \A k \in DOMAIN nodes :
                   nodes[k].kind \in ChainKinds => Len(nodes[k].operands) >= 2
        /\ \A kind \in {"Sum", "Product", "Quotient"} :
                OperatorsOf(result.node, kind) = Count(src, OperatorOf(kind))
        /\ OperatorsOf(result.node, "Difference") <= Count(src, "-")

C1_Witness ==
    /\ ParsedOk
    /\ result.node.kind = "Sum"
    /\ Len(result.node.operands) = 2
    /\ result.node.operands[1].kind = "Difference"
    /\ result.node.operands[2].kind = "Integer"

\* the kinds an operand of a node of each kind may have
OperandKinds(kind) ==
    CASE kind = "Sum" -> {"Difference", "Product", "Quotient", "Power",
                          "Parenthesis", "Integer", "Decimal"}
      [] kind = "Difference" -> {"Product", "Quotient", "Power",
                                 "Parenthesis", "Integer", "Decimal"}
      [] kind = "Product" -> {"Quotient", "Power", "Parenthesis", "Integer", "Decimal"}
      [] kind = "Quotient" -> {"Power", "Parenthesis", "Integer", "Decimal"}
      [] kind = "Power" -> {"Parenthesis", "Integer", "Decimal"}

\* C2: operators nest by the precedence + (loosest), -, *, /, ^ (tightest):
\* the operands of a Sum are never Sums, those of a Difference never Sums or
\* Differences, those of a Product never Sums, Differences or Products, those
\* of a Quotient never chain nodes, and a Power's base and exponent are
\* number literals or Parentheses; '1*2/3' is Product[1, Quotient[2, 3]] and
\* '1-2+3' is Sum[Difference[1, 2], 3].
C2_Precedence ==
    ParsedOk =>
        /\ LET nodes == Nodes(result.node)
           IN  \A k \in DOMAIN nodes :
                 LET n == nodes[k]
                 IN  /\ n.kind \in ChainKinds =>
                           \A i \in 1..Len(n.operands) :
                               n.operands[i].kind \in OperandKinds(n.kind)
                     /\ n.kind = "Power" =>
                           /\ n.base.kind \in OperandKinds("Power")
                           /\ n.exponent.kind \in OperandKinds("Power")
        /\ src = TimesQuotientInput =>
              SameShape(result.node,
                  ChainNode("Product", NoSpan,
                      <<IntegerNode(NoSpan, 1),
                        ChainNode("Quotient", NoSpan,
                            <<IntegerNode(NoSpan, 2), IntegerNode(NoSpan, 3)>>)>>))
        /\ src = DifferenceSumInput =>
              SameShape(result.node,
                  ChainNode("Sum", NoSpan,
                      <<ChainNode("Difference", NoSpan,
                            <<IntegerNode(NoSpan, 1), IntegerNode(NoSpan, 2)>>),
                        IntegerNode(NoSpan, 3)>>))

C2_Witness ==
    /\ ParsedOk
    /\ src = TimesQuotientInput
    /\ result.node.kind = "Product"
    /\ result.node.operands[2].kind = "Quotient"

\* s with the character ch inserted before its i-th character
InsertAt(s, i, ch) == SubSeq(s, 1, i - 1) \o <<ch>> \o SubSeq(s, i, Len(s))

\* C3: whitespace before an operator is skipped for each of + - * / ^, so a
\* space inserted before an operator of an input that parses leaves the kind,
\* values and operands of the returned node unchanged; '2.0 ^ -1' parses to
\* the Power node of '2.0^-1'.
C3_WhitespaceBeforeOperator ==
    /\ ParsedOk =>
          \A i \in 1..Len(src) :
              src[i] \in {"+", "-", "*", "/", "^"} =>
                  LET spaced == parse(InsertAt(src, i, " "), beginning)
                  IN  spaced.status = "Ok" /\ SameShape(spaced.node, result.node)
    /\ (Parsed /\ src = SpacedPowerInput) =>
          /\ result.status = "Ok"
          /\ SameShape(result.node, parse(PowerInput, beginning).node)

\* s with every '*' replaced by TIMES and every '/' by OBELUS
WithSigns(s) ==
    [i \in 1..Len(s) |-> CASE s[i] = "*" -> TIMES [] s[i] = "/" -> OBELUS [] OTHER -> s[i]]

\* C4: the product level accepts TIMES as well as '*' and the quotient level
\* OBELUS as well as '/': replacing them in an input that parses gives an AST
\* of the same kinds, values and operands.
C4_TimesAndObelus ==
    ParsedOk =>
        LET signed == parse(WithSigns(src), beginning)
        IN  signed.status = "Ok" /\ SameShape(signed.node, result.node)

\* the i-th character of s is where the grammar expects an operand: it is
\* the first character that is not whitespace, or the one before it is an
\* operator or an opening parenthesis
AtOperand(s, i) ==
    LET before == {j \in 1..(i - 1) : ~is_ascii_whitespace(s[j])}
    IN  before = {} \/
        LET last == CHOOSE j \in before : \A k \in before : k <= j
        IN  s[last] \in {"+", "-", "*", "/", "^", "("}

\* the text of a span
TextOf(s, position) == SubSeq(s, position.start.char_index + 1, position.end.char_index)

WholeInput(s) ==
    ParsePosition(DefaultPosition, ScanPosition(ByteLen(s), Len(s), 0, 0, 0))

\* C6: a number is an Integer node exactly when its text has no '.' part and
\* no e/E exponent, and a Decimal node otherwise; a digit run outside the i32
\* range ('2147483648', '-2147483649') is the Number error at the span of the
\* number's text, while the ends of the range ('2147483647', '-2147483648')
\* are Integer nodes; there is no wrapped value and no panic.
C6_NumberKind ==
    Parsed =>
        /\ result.status = "Ok" =>
              LET nodes == Nodes(result.node)
              IN  \A k \in DOMAIN nodes :
                    LET n == nodes[k]
                        text == TextOf(src, n.position)
                        marked == \E i \in DOMAIN text : text[i] \in {".", "e", "E"}
                    IN  /\ n.kind = "Integer" => ~marked
                        /\ n.kind = "Decimal" => marked
                        /\ n.kind = "Integer" => n.value >= I32_MIN /\ n.value <= I32_MAX
        /\ src = ExponentInput => result.status = "Ok" /\ result.node.kind = "Decimal"
        /\ src = <<"1", ".", "0">> => result.status = "Ok" /\ result.node.kind = "Decimal"
        /\ src = <<"1", "0">> => result.status = "Ok" /\ result.node.kind = "Integer"
        /\ src \in {TooLargeInput, TooSmallInput} =>
              result = Err("Number", WholeInput(src).start, WholeInput(src).end)
        /\ src = MaxIntegerInput =>
              /\ result.status = "Ok"
              /\ result.node.kind = "Integer"
              /\ result.node.value = I32_MAX
        /\ src = MinIntegerInput =>
              /\ result.status = "Ok"
              /\ result.node.kind = "Integer"
              /\ result.node.value = I32_MIN

C6_Witness ==
    /\ Parsed
    /\ src = TooLargeInput
    /\ result.status = "Err"
    /\ result.error.kind = "Number"
    /\ result.error.position.end.byte_index = 10

\* C7: parse succeeds only if nothing but whitespace follows the expression,
\* and then returns the node with the context at the end of the expression;
\* if anything else follows, it returns ExtraInput from the first character
\* after the expression that is not whitespace to the end of the input.
C7_ExtraInput ==
    Parsed =>
        LET expression == parse_expression(src, beginning)
            after == expression.context.position.char_index
            extra == {i \in (after + 1)..Len(src) : ~is_ascii_whitespace(src[i])}
            first == CHOOSE i \in extra : \A j \in extra : i <= j
        IN  /\ result.status = "Ok" =>
                  /\ expression.status = "Ok"
                  /\ extra = {}
                  /\ result.context = expression.context
                  /\ result.context.matched
                  /\ result.context.position = result.node.position.end
            /\ (expression.status = "Ok" /\ extra = {}) => result.status = "Ok"
            /\ (expression.status = "Ok" /\ extra # {}) =>
                  /\ result.status = "Err"
                  /\ result.error.kind = "ExtraInput"
                  /\ result.error.position.start.char_index = first - 1
                  /\ result.error.position.start.byte_index =
                        ByteLen(SubSeq(src, 1, first - 1))
                  /\ result.error.position.end.char_index = Len(src)
                  /\ result.error.position.end.byte_index = ByteLen(src)
            /\ result.status = "Err" /\ result.error.kind = "ExtraInput" =>
                  expression.status = "Ok"

C7_Witness ==
    /\ ParsedErr("ExtraInput")
    /\ src = <<"1", " ", "2">>
    /\ result.error.position.start.char_index = 2
    /\ result.error.position.end.char_index = 3

\* the texts that complete an input that ends where an operand, a digit run
\* or a closing parenthesis is required
Completions == {<<"1">>, <<")">>, <<"1", ")">>}

\* C8: an input that ends, possibly after whitespace, where the grammar still
\* requires an operand, a digit run or a closing ')' - it does not parse and
\* an operand, a ')' or both appended to it make it parse - is EndOfInput:
\* so are the empty input, whitespace, '1 + ', '(1', '1.' and '1e'; an error
\* that ends before the end of the input is Number.
C8_EndOfInput ==
    Parsed =>
        /\ (result.status = "Err"
            /\ \E c \in Completions : parse(src \o c, beginning).status = "Ok") =>
              result.error.kind = "EndOfInput"
        /\ src \in {<<>>, <<" ">>, <<" ", " ">>, MissingOperandInput, UnclosedInput,
                    MissingFractionInput, MissingExponentInput} =>
              /\ result.status = "Err"
              /\ result.error.kind = "EndOfInput"
        /\ (result.status = "Err"
            /\ result.error.position.end.byte_index < ByteLen(src)) =>
              result.error.kind = "Number"

C8_Witness ==
    /\ ParsedErr("EndOfInput")
    /\ src = MissingOperandInput
    /\ result.error.position.end.byte_index = ByteLen(src)

\* C9: from the beginning context parse returns Ok with a node or one of the
\* errors EndOfInput, ExtraInput, Number, Unknown with a span inside the
\* input; it panics on no input.
C9_NoPanic ==
    Parsed =>
        /\ result.status \in {"Ok", "Err"}
        /\ result.status = "Err" =>
              /\ result.error.kind \in {"EndOfInput", "ExtraInput", "Number", "Unknown"}
              /\ result.error.position.start.byte_index
                    <= result.error.position.end.byte_index
              /\ result.error.position.end.byte_index <= ByteLen(src)
              /\ is_char_boundary(src, result.error.position.start.byte_index)
              /\ is_char_boundary(src, result.error.position.end.byte_index)

C9_Witness ==
    /\ ParsedErr("ExtraInput")
    /\ src = <<"(", TIMES, ")">> \/ src = <<"1", TIMES, "2">>
    /\ result.error.position.end.byte_index = ByteLen(src)

\* C10: evaluate returns an ExpressionValue for every AST the parser returns
\* and never panics; an arithmetic failure is the value NaN.
C10_EvaluateTotal ==
    pc = "evaluated" => value.kind \in {"Integer", "Decimal", "NaN"}

Evaluated == pc = "evaluated"

\* a literal 0 or 0.0
IsZeroLiteral(n) ==
    \/ n.kind = "Integer" /\ n.value = 0
    \/ n.kind = "Decimal" /\ n.value.num = 0

\* some Quotient chain of the tree has a literal zero among its divisors
HasZeroDivisor(n) ==
    LET nodes == Nodes(n)
    IN  \E i \in 1..Len(nodes) :
            /\ nodes[i].kind = "Quotient"
            /\ \E j \in 2..Len(nodes[i].operands) : IsZeroLiteral(nodes[i].operands[j])

\* C11: a division by zero is the value NaN instead of a trap, NaN absorbs
\* every operator, and so an expression that holds a Quotient chain with a
\* zero divisor evaluates to NaN whatever its other operands are.
C11_ZeroDivisorIsNaN ==
    (Evaluated /\ HasZeroDivisor(result.node)) => value.kind = "NaN"

\* two values are the same variant with the same number
SameValue(a, b) ==
    /\ a.kind = b.kind
    /\ a.kind \in {"Integer", "Decimal"} => a.value = b.value

IsZeroValue(v) ==
    \/ v.kind = "Integer" /\ v.value = 0
    \/ v.kind = "Decimal" /\ v.value.num = 0

\* the values of the operands of a chain node
OperandValues(n, overflow_checks) ==
    [i \in 1..Len(n.operands) |-> evaluate(n.operands[i], overflow_checks)]

\* C12: with numbers for operands and no zero divisor, a chain evaluates to
\* an Integer when all its operand values are Integer and to a Decimal when
\* one of them is Decimal.
C12_ResultKind ==
    (Evaluated /\ result.node.kind \in ChainKinds) =>
        \A overflow_checks \in BOOLEAN :
            LET values == OperandValues(result.node, overflow_checks)
                operands == 1..Len(values)
            IN  ( /\ SameValue(value, evaluate(result.node, overflow_checks))
                  /\ \A i \in operands : IsNumber(values[i])
                  /\ result.node.kind = "Quotient" =>
                        \A i \in operands \ {1} : ~IsZeroValue(values[i]) )
                => value.kind = IF \A i \in operands : values[i].kind = "Integer"
                                THEN "Integer" ELSE "Decimal"

RECURSIVE LeftFold(_, _, _)
\* ((v1 op v2) op ...) op vn
LeftFold(kind, values, overflow_checks) ==
    IF Len(values) = 1 THEN values[1]
    ELSE ApplyChain(kind,
                    LeftFold(kind, SubSeq(values, 1, Len(values) - 1), overflow_checks),
                    values[Len(values)], overflow_checks)

\* C13: evaluate folds a chain node left to right over its operands in
\* source order, and a Parenthesis is its sign times the value of its inner
\* node; '1 - 2 - 3' is Integer(-4), '3 / 2 / 1' is Integer(1) and the
\* integer expression of the tests is Integer(-270).
C13_LeftFold ==
    /\ ParsedOk =>
          LET nodes == Nodes(result.node)
          IN  \A i \in 1..Len(nodes) : \A overflow_checks \in BOOLEAN :
                  /\ nodes[i].kind \in ChainKinds =>
                        SameValue(evaluate(nodes[i], overflow_checks),
                                  LeftFold(nodes[i].kind,
                                           OperandValues(nodes[i], overflow_checks),
                                           overflow_checks))
                  /\ nodes[i].kind = "Parenthesis" =>
                        SameValue(evaluate(nodes[i], overflow_checks),
                                  Mul(IntegerValue(IF nodes[i].sign = "Positive" THEN 1 ELSE -1),
                                      evaluate(nodes[i].inner, overflow_checks),
                                      overflow_checks))
    /\ (Evaluated /\ src = DifferenceChainInput) => SameValue(value, IntegerValue(-4))
    /\ (Evaluated /\ src = QuotientChainInput) => SameValue(value, IntegerValue(1))
    /\ (Evaluated /\ src = IntegerExpressionInput) => SameValue(value, IntegerValue(-270))

C13_Witness ==
    /\ Evaluated
    /\ src = IntegerExpressionInput
    /\ SameValue(value, IntegerValue(-270))
    /\ \E i \in 1..Len(Nodes(result.node)) :
          /\ Nodes(result.node)[i].kind = "Product"
          /\ Len(Nodes(result.node)[i].operands) = 3

\* a scanner has been called and has returned or panicked
HasScanned == pc = "scanned"

OutOfRange(context) == context.position.byte_index > ByteLen(src)

\* C14: a scanner given a context that has matched = false or a byte_index
\* past the end of the source returns (false, position) with the position
\* unchanged, whichever scanner it is; so no scanner after the first failure
\* of a sequence changes the context.
C14_StickyFailure ==
    (HasScanned /\ (~scanning.input.matched \/ OutOfRange(scanning.input))) =>
        /\ ~Panicked(scanning.output)
        /\ ~scanning.output.matched
        /\ scanning.output.position = scanning.input.position

C14_Witness ==
    /\ HasScanned
    /\ scanning.scanner = NCharsScanner(0, "any")
    /\ scanning.input.matched
    /\ OutOfRange(scanning.input)
    /\ scanning.output = Context(FALSE, scanning.input.position)

\* the characters of the source from the byte index of a context on
Rest(context) == SliceFrom(src, context.position.byte_index)

\* the number of characters at the front of rest that are those of the literal
LiteralPrefix(rest, literal) ==
    CHOOSE j \in 0..Len(rest) :
        /\ j <= Len(literal)
        /\ \A i \in 1..j : rest[i] = literal[i]
        /\ j = Len(rest) \/ j = Len(literal) \/ rest[j + 1] # literal[j + 1]

\* the number of characters at the front of rest that pass the test
TestPrefix(rest, test) ==
    CHOOSE j \in 0..Len(rest) :
        /\ \A i \in 1..j : TestChar(test, rest[i])
        /\ j = Len(rest) \/ ~TestChar(test, rest[j + 1])

\* C15: when scan_literal, scan_one_or_more_chars or scan_n_chars returns
\* matched = false from a matched context in range, byte_index and char_index
\* are those of the first character that did not match, or of the end of the
\* source, the characters before it being counted; scan_one_or_more_chars
\* returns the position it was given.
C15_FailurePosition ==
    ( /\ HasScanned
      /\ scanning.scanner.op \in {"scan_literal", "scan_one_or_more_chars", "scan_n_chars"}
      /\ scanning.input.matched
      /\ ~OutOfRange(scanning.input)
      /\ ~Panicked(scanning.output)
      /\ ~scanning.output.matched )
    => LET rest == Rest(scanning.input)
           consumed ==
               CASE scanning.scanner.op = "scan_literal" ->
                        LiteralPrefix(rest, scanning.scanner.literal)
                 [] scanning.scanner.op = "scan_n_chars" ->
                        TestPrefix(rest, scanning.scanner.test)
                 [] scanning.scanner.op = "scan_one_or_more_chars" -> 0
       IN  /\ scanning.output.position.char_index
                 = scanning.input.position.char_index + consumed
           /\ scanning.output.position.byte_index
                 = scanning.input.position.byte_index + ByteLen(SubSeq(rest, 1, consumed))
           /\ scanning.scanner.op = "scan_one_or_more_chars"
                 => scanning.output.position = scanning.input.position

C15_Witness ==
    /\ HasScanned
    /\ scanning.scanner = LiteralScanner(<<"a", NEWLINE>>)
    /\ src = <<"a", TIMES>>
    /\ scanning.input = beginning
    /\ scanning.output = Context(FALSE, NewLine(ScanPosition(1, 1, 0, 0, 0)))

\* the sequence of scanner calls began at the beginning of the source
FromBeginning == pc \in {"ready", "scanned"} /\ scanning.origin = beginning

\* C16: every context that sequences of scanner calls reach from the
\* beginning, matched or not, has line_byte_index <= byte_index and
\* line_char_index <= char_index, with byte_index on a character boundary.
C16_LineStart ==
    FromBeginning =>
        /\ ~Panicked(scanning.output)
        /\ scanning.output.position.line_byte_index <= scanning.output.position.byte_index
        /\ scanning.output.position.line_char_index <= scanning.output.position.char_index
        /\ is_char_boundary(src, scanning.output.position.byte_index)

\* the index of the last NEWLINE of a string, 0 when it has none
LastNewLine(s) ==
    CHOOSE i \in 0..Len(s) :
        /\ i > 0 => s[i] = NEWLINE
        /\ \A j \in (i + 1)..Len(s) : s[j] # NEWLINE

\* C17: in every context that sequences of scanner calls reach from the
\* beginning, matched or not, line_index is the number of NEWLINE characters
\* of s[0..byte_index], and line_byte_index and line_char_index are the byte
\* and character index just after the last of them, 0 when there is none.
C17_LineCounters ==
    (FromBeginning /\ is_char_boundary(src, scanning.output.position.byte_index)) =>
        LET position == scanning.output.position
            consumed == Slice(src, 0, position.byte_index)
        IN  /\ position.line_index = Count(consumed, NEWLINE)
            /\ position.line_byte_index = ByteLen(SubSeq(consumed, 1, LastNewLine(consumed)))
            /\ position.line_char_index = LastNewLine(consumed)

\* C18 as stated: every scanner returns a byte_index that is at least the
\* one it was given, and at most the length of the source whenever it
\* returns matched = false.
C18_ByteIndexBounds ==
    HasScanned =>
        /\ scanning.output.position.byte_index >= scanning.input.position.byte_index
        /\ ~scanning.output.matched => scanning.output.position.byte_index <= ByteLen(src)

\* C18, amended: every scanner returns a byte_index that is at least the one
\* it was given, and at most the length of the source whenever it returns
\* matched = false and the byte_index it was given is at most that length.
C18_ByteIndexBoundsInRange ==
    HasScanned =>
        /\ scanning.output.position.byte_index >= scanning.input.position.byte_index
        /\ (~scanning.output.matched /\ ~OutOfRange(scanning.input))
              => scanning.output.position.byte_index <= ByteLen(src)

C18_Witness ==
    /\ HasScanned
    /\ scanning.input.matched
    /\ ~OutOfRange(scanning.input)
    /\ ~Panicked(scanning.output)
    /\ ~scanning.output.matched
    /\ scanning.output.position.byte_index > scanning.input.position.byte_index
    /\ scanning.output.position.byte_index = ByteLen(src)

\* the scanners of a sequence that match when given the context
Matching(scanners, context) ==
    {i \in 1..Len(scanners) :
        LET alone == scan(scanners[i], src, context)
        IN  ~Panicked(alone) /\ alone.matched}

\* C19: scan_any gives each of its scanners the input context, in order; when
\* one of them matches there it returns what the first such scanner returns,
\* and it returns matched = false only when none of them matches.
C19_FirstSuccess ==
    (HasScanned /\ scanning.scanner.op = "scan_any" /\ ~Panicked(scanning.output)) =>
        LET scanners == scanning.scanner.scanners
            matching == Matching(scanners, scanning.input)
        IN  /\ matching # {} =>
                  LET first == CHOOSE i \in matching : \A j \in matching : i <= j
                  IN  scanning.output = scan(scanners[first], src, scanning.input)
            /\ ~scanning.output.matched => matching = {}

RECURSIVE Nest(_, _)
\* sk(s, ... s1(s, context) ...): each scanner is called with what the one
\* before it returned
Nest(scanners, context) ==
    IF scanners = <<>> THEN context
    ELSE Nest(Tail(scanners), scan(Head(scanners), src, context))

\* C20 as stated: scan_pair returns what the right scanner returns for the
\* context the left scanner returns, and scan_all returns what the nesting
\* of its scanners returns, the context itself for no scanners, whatever
\* the input context is.
C20_Nesting ==
    HasScanned =>
        /\ scanning.scanner.op = "scan_pair" =>
              scanning.output = Nest(scanning.scanner.scanners, scanning.input)
        /\ scanning.scanner.op = "scan_all" =>
              scanning.output = Nest(scanning.scanner.scanners, scanning.input)

\* C20, amended: the same, but scan_all with no scanners returns the context
\* itself only when the context is in range or has matched = false; for a
\* matched context past the end of the source it returns (false, position).
C20_NestingInRange ==
    HasScanned =>
        /\ scanning.scanner.op = "scan_pair" =>
              scanning.output = Nest(scanning.scanner.scanners, scanning.input)
        /\ scanning.scanner.op = "scan_all" =>
              scanning.output =
                  IF scanning.scanner.scanners = <<>> /\ OutOfRange(scanning.input)
                  THEN Context(FALSE, scanning.input.position)
                  ELSE Nest(scanning.scanner.scanners, scanning.input)

C20_Witness ==
    /\ HasScanned
    /\ scanning.scanner.op \in {"scan_pair", "scan_all"}
    /\ Len(scanning.scanner.scanners) = 2
    /\ scanning.input.matched
    /\ ~OutOfRange(scanning.input)
    /\ ~scan(scanning.scanner.scanners[1], src, scanning.input).matched
    /\ scan(scanning.scanner.scanners[2], src, scanning.input).matched
    /\ scanning.output = Nest(scanning.scanner.scanners, scanning.input)
    /\ ~scanning.output.matched

\* a function of LinkList has been called on a list
HasCalled(op) == called.op = op

RECURSIVE Factorial(_)
Factorial(n) == IF n = 0 THEN 1 ELSE n * Factorial(n - 1)

Occurrences(elems, e) == Cardinality({i \in DOMAIN elems : elems[i] = e})

\* no element occurs twice
Distinct(elems) == \A i \in DOMAIN elems : Occurrences(elems, elems[i]) = 1

\* the same elements, each as often, in any order
IsReordering(elems, other) ==
    /\ Len(elems) = Len(other)
    /\ \A i \in DOMAIN other : Occurrences(elems, other[i]) = Occurrences(other, other[i])

\* every reordering of the elements
Orderings(elems) ==
    {p \in [1..Len(elems) -> {elems[i] : i \in DOMAIN elems}] : IsReordering(p, elems)}

\* C21: permute of a list of n >= 1 pairwise distinct elements returns n!
\* lists, each a reordering of the list, and every ordering exactly once; of
\* the empty list it returns the empty list, of a list of one element the
\* list of that list
C21_Permutations ==
    HasCalled("permute") =>
        LET self == called.self
            n == Len(self.list)
            output == called.output
        IN  /\ n = 0 => output = new
            /\ n = 1 => output = LinkList(1, <<self>>)
            /\ (n >= 1 /\ Distinct(self.list)) =>
                  /\ len(output) = Factorial(n)
                  /\ Len(output.list) = Factorial(n)
                  /\ \A k \in DOMAIN output.list :
                        /\ len(output.list[k]) = n
                        /\ IsReordering(output.list[k].list, self.list)
                  /\ \A p \in Orderings(self.list) :
                        Cardinality({k \in DOMAIN output.list : output.list[k].list = p}) = 1

C21_Witness ==
    /\ HasCalled("permute")
    /\ Len(called.self.list) = 3
    /\ Distinct(called.self.list)
    /\ len(called.output) = 6
    /\ \E k \in DOMAIN called.output.list : called.output.list[k] = reverse(called.self)

\* C28: the result of permute never holds two equal orderings, so for a list
\* with repeated elements it has fewer than factorial(n) entries
C28_UniquePermutations ==
    HasCalled("permute") =>
        /\ Distinct(called.output.list)
        /\ ~Distinct(called.self.list) =>
              len(called.output) < Factorial(Len(called.self.list))

\* the number of elements met by taking tail() again and again from the head
RECURSIVE Reachable(_)
Reachable(list) ==
    IF tail(list) = None THEN 0 ELSE 1 + Reachable(unwrap(tail(list)))

\* C29: for every list reachable from new() by the operations, len() is the
\* number of elements reachable by tail() from the head, and is_empty() holds
\* exactly when len() is 0; tail() of the empty list is None and tail() of a
\* list of one element is the empty list
C29_StoredSize ==
    /\ len(linked) = Reachable(linked)
    /\ is_empty(linked) <=> len(linked) = 0
    /\ HasCalled("tail") =>
          /\ len(called.self) = 0 => called.output = None
          /\ len(called.self) = 1 => called.output = Some(new)

C29_Witness ==
    /\ HasCalled("tail")
    /\ len(called.self) = 2
    /\ len(linked) = 1
    /\ Reachable(linked) = 1

\* the product of the sizes of the lists
RECURSIVE SizeProduct(_)
SizeProduct(lists) ==
    IF Len(lists) = 0 THEN 1 ELSE len(lists[1]) * SizeProduct(Tail(lists))

\* one index into every list
Choices(lists) ==
    {choice \in [DOMAIN lists -> 1..MaxFlatLen + 1] :
        \A i \in DOMAIN lists : choice[i] <= Len(lists[i].list)}

\* [e1..ek] for the choice of one element of every list
Chosen(lists, choice) == [i \in DOMAIN lists |-> lists[i].list[choice[i]]]

\* how often a list occurs in a list of lists
Entries(fatlist, elems) ==
    Cardinality({k \in DOMAIN fatlist.list : fatlist.list[k].list = elems})

NonEmptyLists(lists) == \A i \in DOMAIN lists : ~is_empty(lists[i])

\* C22: combinations of [s1..sk], every si non-empty, returns |s1|*...*|sk|
\* lists, every [e1..ek] with ei from si once for every choice of the ei;
\* combine(acc, list) returns every list of acc extended at its end by every
\* element of list
C22_Combinations ==
    /\ (HasCalled("combinations") /\ Len(called.self.list) >= 1
            /\ NonEmptyLists(called.self.list)) =>
          LET lists == called.self.list
              output == called.output
          IN  /\ len(output) = SizeProduct(lists)
              /\ Len(output.list) = SizeProduct(lists)
              /\ \A choice \in Choices(lists) :
                    Entries(output, Chosen(lists, choice)) =
                        Cardinality({other \in Choices(lists) :
                                        Chosen(lists, other) = Chosen(lists, choice)})
    /\ HasCalled("combine") =>
          LET acc == called.self.list
              list == called.arg.list
              output == called.output
          IN  /\ Len(output.list) = Len(acc) * Len(list)
              /\ \A i \in DOMAIN acc, j \in DOMAIN list :
                    Entries(output, acc[i].list \o <<list[j]>>) =
                        Cardinality({p \in (DOMAIN acc) \X (DOMAIN list) :
                                        acc[p[1]].list \o <<list[p[2]]>> = acc[i].list \o <<list[j]>>})

\* C23: combinations of the empty outer list yields one result, the empty
\* tuple, and of an outer list with an empty inner list the empty result
C23_EmptyCases ==
    HasCalled("combinations") =>
        /\ is_empty(called.self) => called.output = insert(new, new)
        /\ (~is_empty(called.self) /\ ~NonEmptyLists(called.self.list)) =>
              called.output = new

\* C27: a power consumes at most one '^': when a '^' follows a prefix of the
\* input that is a power a^b by itself, the tree of the prefix is Power[a, b]
\* with neither operand a Power, and the parse of the whole input returns
\* ExtraInput with a span that starts at that second '^'
C27_SinglePower ==
    Parsed =>
        \A i \in 1..Len(src) :
            LET prefix == SubSeq(src, 1, i - 1)
                first == parse(prefix, beginning)
            IN  (src[i] = "^" /\ first.status = "Ok" /\ first.node.kind = "Power") =>
                    /\ first.node.base.kind # "Power"
                    /\ first.node.exponent.kind # "Power"
                    /\ ParsedErr("ExtraInput")
                    /\ result.error.position.start.char_index = i - 1
                    /\ result.error.position.start.byte_index = ByteLen(prefix)

C27_Witness ==
    /\ src = <<"1", "^", "2", "^", "3">>
    /\ ParsedErr("ExtraInput")
    /\ result.error.position.start.char_index = 3
    /\ result.error.position.end.char_index = 5

\* the nodes directly below a node
Children(n) ==
    CASE n.kind = "Parenthesis" -> <<n.inner>>
      [] n.kind = "Power" -> <<n.base, n.exponent>>
      [] n.kind \in ChainKinds -> n.operands
      [] OTHER -> <<>>

\* a literal below zero, or a parenthesis with a '-' in front
IsNegative(n) ==
    CASE n.kind = "Integer" -> n.value < 0
      [] n.kind = "Decimal" -> n.value.num < 0
      [] n.kind = "Parenthesis" -> n.sign = "Negative"
      [] OTHER -> FALSE

\* a span lies inside another
Inside(inner, outer) ==
    /\ outer.start.byte_index <= inner.start.byte_index
    /\ outer.start.char_index <= inner.start.char_index
    /\ inner.end.byte_index <= outer.end.byte_index
    /\ inner.end.char_index <= outer.end.char_index

\* C26: for every node of a returned tree, span.start is the position of the
\* node's first character after leading whitespace (the '-' of a negative
\* literal or parenthesis) and span.end the position just after its last
\* character, trailing whitespace excluded; start <= end, every child's span
\* lies inside its parent's, and the context returned with the tree is at
\* the end of the span of its root
C26_Spans ==
    ParsedOk =>
        /\ result.context.position = result.node.position.end
        /\ \A k \in DOMAIN Nodes(result.node) :
              LET n == Nodes(result.node)[k]
                  start == n.position.start
                  end == n.position.end
              IN  /\ start.char_index < end.char_index
                  /\ end.char_index <= Len(src)
                  /\ start.byte_index = ByteLen(SubSeq(src, 1, start.char_index))
                  /\ end.byte_index = ByteLen(SubSeq(src, 1, end.char_index))
                  /\ ~is_ascii_whitespace(src[start.char_index + 1])
                  /\ ~is_ascii_whitespace(src[end.char_index])
                  /\ IsNegative(n) => src[start.char_index + 1] = "-"
                  /\ \A c \in DOMAIN Children(n) : Inside(Children(n)[c].position, n.position)

C26_Witness ==
    /\ ParsedOk
    /\ Len(src) > 4
    /\ src[1] = " "
    /\ src[Len(src)] = " "
    /\ result.node.kind = "Sum"
    /\ result.node.position.start.char_index = 1
    /\ result.node.position.end.char_index = Len(src) - 1
    /\ result.context.position.char_index = Len(src) - 1
    /\ IsNegative(result.node.operands[3])

\* the strings joined by the operator between single spaces
RECURSIVE Joined(_, _)
Joined(strings, operator) ==
    IF Len(strings) = 0 THEN <<>>
    ELSE IF Len(strings) = 1 THEN strings[1]
    ELSE Joined(SubSeq(strings, 1, Len(strings) - 1), operator)
            \o <<" ">> \o operator \o <<" ">> \o strings[Len(strings)]

\* C30: formatStringOperands terminates for every finite list of operands and
\* returns the operands in order joined by ' <operator> ', the empty string
\* for the empty list and the operand for a list of one
C30_FormatTerminates ==
    <>(pc = "returned" /\ called.output = Joined(called.self.list, called.arg))

\* generateCommutedExpressions has been called on the input
Commuted == pc = "commuted"

\* the node the input parses to
CommutedNode == parse(src, beginning).node

CommutedKind(kinds) ==
    /\ Commuted
    /\ parse(src, beginning).status = "Ok"
    /\ CommutedNode.kind \in kinds

\* the strings of a list
StringsOf(list) == {list.list[i] : i \in DOMAIN list.list}

\* the commuted strings of every operand of a chain node
OwnStrings(operands) ==
    [i \in DOMAIN operands |->
        StringsOf(generateCommutedExpressions(to_string(operands[i])).output)]

\* one commuted string for every operand, in the order given
Picks(own, order) ==
    {pick \in [DOMAIN order -> UNION {own[i] : i \in DOMAIN own}] :
        \A k \in DOMAIN order : pick[k] \in own[order[k]]}

\* the strings of a chain node: for every order of the operands allowed and
\* every pick of their commuted strings, the pick joined by the operator
ChainStrings(operands, orders, operator) ==
    {Joined(pick, operator) :
        pick \in UNION {Picks(OwnStrings(operands), order) : order \in orders}}

\* the orders of n operands: all of them, or the order of the source only
AllOrders(n) == {order \in [1..n -> 1..n] : \A i \in 1..n : \E k \in 1..n : order[k] = i}
SourceOrder(n) == {[k \in 1..n |-> k]}

\* C24: for a Sum or Product node, commute emits for every permutation of the
\* operands and every combination of the operands' own commuted strings the
\* string 's1 OP s2 OP ... OP sn', OP being '+' for a Sum and '*' for a Product
C24_ChainStrings ==
    CommutedKind({"Sum", "Product"}) =>
        /\ called.output.status = "Ok"
        /\ StringsOf(called.output.output) =
              ChainStrings(CommutedNode.operands, AllOrders(Len(CommutedNode.operands)),
                           <<OperatorOf(CommutedNode.kind)>>)

\* C25: commute never reorders the operands of a Difference or Quotient: its
\* output holds the strings that keep the operands in source order, each
\* operand replaced by one of its own commuted strings, joined by '-' or '/';
\* the commuted strings of '2 - 3' do not hold '3 - 2'
C25_NestedStrings ==
    CommutedKind({"Difference", "Quotient"}) =>
        /\ called.output.status = "Ok"
        /\ StringsOf(called.output.output) =
              ChainStrings(CommutedNode.operands, SourceOrder(Len(CommutedNode.operands)),
                           <<OperatorOf(CommutedNode.kind)>>)
        /\ src = <<"2", " ", "-", " ", "3">> =>
              <<"3", " ", "-", " ", "2">> \notin StringsOf(called.output.output)

====
